---- MODULE Spec2Model ----
(***************************************************************************)
(* Model of the mini-wallet GraphQL server: resolvers, WalletService,      *)
(* BlockchainService (chain gateway), the repositories over PostgreSQL,    *)
(* the encryption module and the GraphQL error formatter.                  *)
(*                                                                         *)
(* Every async function is cut at its awaits: one action per continuation. *)
(* The chain (node provider, explorer) and the database are environment    *)
(* state; provider and database failures are nondeterministic outcomes.    *)
(***************************************************************************)
EXTENDS Integers, Sequences, FiniteSets, TLC

(* ------------------------------ bounds --------------------------------- *)
MaxWallets == 2
MaxHashes == 1
MaxBalance == 1
MaxAmount == 1
MaxReq == 2

(* wei per ether, scaled down from 10^18 so that balances stay small *)
WeiPerEther == 2

UserIds == {1, 2}
Slots == 1..MaxReq
Hashes == 1..MaxHashes
Networks == {"sepolia"}
NodeEnvs == {"production", "development"}

(* ----------------------------- addresses ------------------------------- *)
AddressNames == <<"0xW1", "0xW2", "0xW3", "0xW4">>
ExternalAddr == "0xEXT"
BadChecksumAddr == "0xBadChecksum"
MalformedAddr == "not-an-address"

(* ethers.Wallet: the address is derived from the private key *)
AddressOf(privateKey) == AddressNames[privateKey]

WalletAddrs == {AddressOf(k) : k \in 1..MaxWallets}
ToAddresses == WalletAddrs \cup {BadChecksumAddr, MalformedAddr}

(* a gateway that takes any recipient string *)
isAddressUnchecked(a) == TRUE

(* ethers.isAddress: hex form and, for mixed case, a valid checksum *)
isAddress(a) == a \in WalletAddrs \cup {ExternalAddr}

(* Joi pattern /^0x[a-fA-F0-9]{40}$/ of schemas.sendFunds: form only *)
isValidEthereumAddress(a) == a \in WalletAddrs \cup {ExternalAddr, BadChecksumAddr}

(* a decimal ether amount: whole ethers and the fraction, in base units *)
(* ethers.parseEther: decimal ether amount to integer base units *)
parseEther(amountInEther) == amountInEther.whole * WeiPerEther + amountInEther.frac

(* ethers.formatEther: base units back to a decimal ether amount *)
formatEther(wei) == [whole |-> wei \div WeiPerEther, frac |-> wei % WeiPerEther]

(* the amounts a caller may ask to send: "0.5", "1.0", ... *)
Amounts == {formatEther(w) : w \in 1..MaxAmount}

(* ------------------------------- state --------------------------------- *)
VARIABLES
    nodeEnv,      \* process.env.NODE_ENV
    etherscanKey, \* process.env.ETHERSCAN_API_KEY is set
    wallets,      \* wallets table: sequence of rows, id = index
    txs,          \* transactions table: sequence of rows, id = index
    statusWrites, \* per transaction row: number of UPDATEs of its status
    chain,        \* hash -> the chain's view of the transaction
    balance,      \* address -> wei
    reqs,         \* slot -> the request in flight there
    tasks,        \* hash -> the detached updateTransactionStatus task
    resp,         \* the response sent by the last step, if any
    limiters,     \* limiter name -> the peer's record in that RateLimiterMemory
    now,          \* Date.now(), in milliseconds since server start
    http,         \* what the middleware chain did with the last HTTP request
    admitted,     \* endpoint class -> requests of the peer passed on to the handlers
    quotaEnd,     \* end of the window whose general quota the peer has used up, or 0
    pages,        \* the pages a client paging through a wallet's list has read
    boot,         \* process starts so far, and the rows a termination left behind
    proc,         \* the process: which secrets its environment sets, and how far it has started
    users,        \* users table: sequence of rows, id = index
    vault         \* direct calls of the encryption module: bytes drawn, tokens, last decrypt

vars == <<nodeEnv, etherscanKey, wallets, txs, statusWrites, chain, balance, reqs, tasks, resp,
          limiters, now, http, admitted, quotaEnd, pages, boot, proc, users, vault>>

(* ----------------------------- encryption ------------------------------ *)
Modulus == 7

(* process.env.ENCRYPTION_KEY when it is set, and the literal used in its place *)
ConfiguredKey == 3
DefaultKey == 5

(* process.env.ENCRYPTION_KEY || 'default-key-change-in-production' *)
EncryptionSecret == IF proc.encryptionKey THEN ConfiguredKey ELSE DefaultKey
Entropy == {<<1, 2>>}

deriveKey(salt) == (EncryptionSecret * 2 + salt * 3) % Modulus

AuthTag(text, key, iv) == (text * 3 + key * 2 + iv + 1) % Modulus

encrypt(text, salt, iv) ==
    [salt |-> salt, iv |-> iv,
     tag |-> AuthTag(text, deriveKey(salt), iv),
     data |-> (text + deriveKey(salt) + iv) % Modulus]

DecryptText(token) == (token.data + 2 * Modulus - deriveKey(token.salt) - token.iv) % Modulus

(* a decipher that returns what it deciphers without verifying the tag *)
DecryptOkUnverified(token) == TRUE

(* decipher.final throws when the tag does not verify *)
DecryptOk(token) == AuthTag(DecryptText(token), deriveKey(token.salt), token.iv) = token.tag

decrypt(token) == IF DecryptOk(token) THEN DecryptText(token) ELSE 0

(* ------------------------- authentication ------------------------------ *)
NoHeader == [present |-> FALSE, userId |-> 0, valid |-> FALSE]

(* an Authorization header: a token signed for userId, or one that does not verify *)
Headers == {NoHeader} \cup {[present |-> TRUE, userId |-> u, valid |-> v] : u \in UserIds, v \in BOOLEAN}

(* authService.verifyToken: jwt.verify throws on a bad signature or expiry *)
verifyToken(header) == header.valid

(* context.user: the decoded user id, or 0 for { user: null } *)
authenticateGraphQL(header) ==
    IF ~header.present THEN 0
    ELSE IF verifyToken(header) THEN header.userId
    ELSE 0

(* resolvers that let a request without a user through *)
requireAuthSkipped(contextUser) == TRUE

(* requireAuth throws Error('Authentication required') when context.user is null *)
requireAuth(contextUser) == contextUser # 0

(* ------------------------------ errors --------------------------------- *)
(* a thrown error: AppError instances carry statusCode and isOperational *)
PlainError(message) == [message |-> message, appError |-> FALSE, statusCode |-> 0, isOperational |-> FALSE]
AppError(message, statusCode) == [message |-> message, appError |-> TRUE, statusCode |-> statusCode, isOperational |-> TRUE]
NoError == PlainError("")

getGraphQLErrorCode(statusCode) ==
    CASE statusCode = 400 -> "BAD_USER_INPUT"
      [] statusCode = 401 -> "UNAUTHENTICATED"
      [] statusCode = 403 -> "FORBIDDEN"
      [] statusCode = 404 -> "NOT_FOUND"
      [] statusCode = 409 -> "CONFLICT"
      [] statusCode = 422 -> "BAD_USER_INPUT"
      [] statusCode = 429 -> "TOO_MANY_REQUESTS"
      [] statusCode = 500 -> "INTERNAL_SERVER_ERROR"
      [] statusCode = 503 -> "SERVICE_UNAVAILABLE"
      [] OTHER -> "INTERNAL_SERVER_ERROR"

(* error.message.includes('Database') || error.message.includes('Internal') *)
MentionsInternals(message) == message \in {"Database operation failed", "Internal server error"}

GenericMessage == "An internal error occurred"

(* formatGraphQLError applied to the error a resolver threw, under NODE_ENV env *)
formatGraphQLError(env, err) ==
    IF err.appError
    THEN [message |-> err.message, code |-> getGraphQLErrorCode(err.statusCode)]
    ELSE IF env = "production" /\ (MentionsInternals(err.message) \/ ~err.isOperational)
    THEN [message |-> GenericMessage, code |-> "INTERNAL_SERVER_ERROR"]
    ELSE [message |-> err.message, code |-> "BAD_REQUEST"]

(* ----------------------------- responses ------------------------------- *)
NoResp ==
    [op |-> "none", user |-> 0, ok |-> FALSE, error |-> NoError,
     message |-> "", code |-> "", body |-> <<>>, mnemonic |-> 0, walletId |-> 0,
     hash |-> 0, calls |-> {}]

(* a resolver returned normally *)
Reply(op, user, walletId, body, calls) ==
    [NoResp EXCEPT !.op = op, !.user = user, !.ok = TRUE,
                   !.walletId = walletId, !.body = body, !.calls = calls]

(* a resolver threw err: Apollo passes it through formatError *)
Reject(op, user, walletId, err, calls) ==
    [NoResp EXCEPT !.op = op, !.user = user, !.walletId = walletId,
                   !.error = err,
                   !.message = formatGraphQLError(nodeEnv, err).message,
                   !.code = formatGraphQLError(nodeEnv, err).code,
                   !.calls = calls]

(* ----------------------------- requests -------------------------------- *)
NoReq ==
    [op |-> "idle", pc |-> "idle", user |-> 0, walletId |-> 0,
     to |-> "", amount |-> formatEther(0), privateKey |-> 0, hash |-> 0, pulled |-> <<>>, limit |-> 0, offset |-> 0,
     username |-> "", calls |-> {}]

(* no request is in flight in slot s *)
FreeSlot(s) == reqs[s].op = "idle"

(* --------------------------- wallets table ----------------------------- *)
WalletIds == 1..Len(wallets)

(* ethers.Wallet.createRandom: a private key never generated before *)
FreshPrivateKey == Len(wallets) + 1

(* the mnemonic phrase the key was derived from *)
MnemonicOf(privateKey) == 100 + privateKey

(* INSERT INTO wallets (user_id, address, encrypted_private_key, network) *)
WalletRow(id, userId, address, encryptedPrivateKey, network) ==
    [id |-> id, user_id |-> userId, address |-> address,
     encrypted_private_key |-> encryptedPrivateKey, network |-> network]

(* a read that selects the stored key token as well *)
LeakyColumns == {"id", "user_id", "address", "encrypted_private_key", "network"}

(* SELECT id, user_id, address, network ... (created_at, updated_at left out) *)
PublicColumns == {"id", "user_id", "address", "network"}

(* SELECT id, user_id, address, encrypted_private_key, network *)
PrivateKeyColumns == {"id", "user_id", "address", "encrypted_private_key", "network"}

Project(row, columns) == [c \in columns |-> row[c]]

(* a lookup by id alone *)
MatchIdOnly(walletId, userId) == {i \in WalletIds : i = walletId}

(* ... WHERE id = $1 AND user_id = $2 *)
MatchIdAndUser(walletId, userId) ==
    {i \in WalletIds : i = walletId /\ wallets[i].user_id = userId}

(* WalletRepository.findByIdAndUserId: rows[0] || null, as a sequence of 0 or 1 rows *)
findByIdAndUserId(walletId, userId) ==
    IF MatchIdAndUser(walletId, userId) = {} THEN <<>>
    ELSE <<Project(wallets[walletId], PublicColumns)>>

(* WalletRepository.findWithPrivateKey *)
findWithPrivateKey(walletId, userId) ==
    IF MatchIdAndUser(walletId, userId) = {} THEN <<>>
    ELSE <<Project(wallets[walletId], PrivateKeyColumns)>>

RECURSIVE SelectWallets(_, _)
SelectWallets(userId, n) ==
    IF n = 0 THEN <<>>
    ELSE IF wallets[n].user_id = userId
         THEN <<Project(wallets[n], PublicColumns)>> \o SelectWallets(userId, n - 1)
         ELSE SelectWallets(userId, n - 1)

(* WalletRepository.findByUserId: ... WHERE user_id = $1 ORDER BY created_at DESC *)
findWalletsByUserId(userId) == SelectWallets(userId, Len(wallets))

(* the owner of a wallet id, 0 when there is no such wallet *)
OwnerOf(walletId) == IF walletId \in WalletIds THEN wallets[walletId].user_id ELSE 0

(* ------------------------ transactions table --------------------------- *)
(* INSERT INTO transactions (wallet_id, transaction_hash, from_address, to_address,
   amount, gas_price, gas_used, status); block_number and timestamp stay NULL (0) *)
TransactionRow(id, walletId, hash, from, to, amount, gasPrice, gasUsed, status) ==
    [id |-> id, wallet_id |-> walletId, transaction_hash |-> hash, from_address |-> from,
     to_address |-> to, amount |-> amount, gas_price |-> gasPrice, gas_used |-> gasUsed,
     status |-> status, block_number |-> 0, timestamp |-> 0]

RowsWithHash(hash) == {i \in 1..Len(txs) : txs[i].transaction_hash = hash}

(* a transactions table without the UNIQUE constraint *)
UniqueViolationNever(hash) == FALSE

(* transaction_hash VARCHAR(66) UNIQUE: the INSERT fails with code 23505 *)
UniqueViolation(hash) == RowsWithHash(hash) # {}

(* a table that keeps one row per wallet: a new insert for a wallet that has
   a row takes that row's place *)
createTransactionInPlace(walletId, hash, from, to, amount, gasPrice, gasUsed, status) ==
    LET mine == {i \in 1..Len(txs) : txs[i].wallet_id = walletId}
    IN  IF mine = {}
        THEN Append(txs, TransactionRow(Len(txs) + 1, walletId, hash, from, to, amount, gasPrice, gasUsed, status))
        ELSE [i \in 1..Len(txs) |->
                IF i \in mine
                THEN TransactionRow(i, walletId, hash, from, to, amount, gasPrice, gasUsed, status)
                ELSE txs[i]]

(* TransactionRepository.createTransaction, when the INSERT succeeds *)
createTransaction(walletId, hash, from, to, amount, gasPrice, gasUsed, status) ==
    Append(txs, TransactionRow(Len(txs) + 1, walletId, hash, from, to, amount, gasPrice, gasUsed, status))

(* TransactionRepository.findByHash: SELECT * FROM transactions WHERE transaction_hash = $1 *)
findByHash(hash) ==
    IF RowsWithHash(hash) = {} THEN <<>>
    ELSE <<txs[CHOOSE i \in RowsWithHash(hash) : TRUE]>>

(* TransactionRepository.findByHashAndUserId: JOIN wallets w ... AND w.user_id = $2 *)
findByHashAndUserId(hash, userId) ==
    LET hit == {i \in RowsWithHash(hash) : OwnerOf(txs[i].wallet_id) = userId}
    IN  IF hit = {} THEN <<>> ELSE <<txs[CHOOSE i \in hit : TRUE]>>

RECURSIVE SelectByWallet(_, _)
SelectByWallet(walletId, n) ==
    IF n = 0 THEN <<>>
    ELSE IF txs[n].wallet_id = walletId
         THEN <<txs[n]>> \o SelectByWallet(walletId, n - 1)
         ELSE SelectByWallet(walletId, n - 1)

(* LIMIT $2 OFFSET $3 *)
LimitOffset(rows, limit, offset) ==
    SubSeq(rows, offset + 1, IF offset + limit < Len(rows) THEN offset + limit ELSE Len(rows))

(* a listing without the WHERE wallet_id = $1 clause *)
findByAnyWallet(walletId, limit, offset) ==
    LimitOffset([i \in 1..Len(txs) |-> txs[Len(txs) + 1 - i]], limit, offset)

(* TransactionRepository.findByWalletId: WHERE wallet_id = $1 ORDER BY created_at DESC *)
findByWalletId(walletId, limit, offset) ==
    LimitOffset(SelectByWallet(walletId, Len(txs)), limit, offset)

(* an UPDATE that sets the status and leaves the other columns as they are *)
updateStatusColumnOnly(hash, details) ==
    [i \in 1..Len(txs) |->
        IF txs[i].transaction_hash = hash
        THEN [txs[i] EXCEPT !.status = details.status]
        ELSE txs[i]]

(* TransactionRepository.updateTransactionStatus:
   UPDATE transactions SET status, gas_used, block_number, timestamp WHERE transaction_hash = $5 *)
updateTransactionStatus(hash, details) ==
    [i \in 1..Len(txs) |->
        IF txs[i].transaction_hash = hash
        THEN [txs[i] EXCEPT !.status = details.status, !.gas_used = details.gasUsed,
                            !.block_number = details.blockNumber,
                            !.timestamp = details.timestamp]
        ELSE txs[i]]

(* a storeTransaction that brings an existing row up to date with what it is given *)
storeTransactionUpsert(walletId, hash, from, to, amount, gasPrice, gasUsed, status) ==
    IF UniqueViolation(hash)
    THEN [table |-> [i \in 1..Len(txs) |->
                        IF txs[i].transaction_hash = hash
                        THEN [txs[i] EXCEPT !.status = status] ELSE txs[i]],
          row |-> findByHash(hash)]
    ELSE [table |-> createTransaction(walletId, hash, from, to, amount, gasPrice, gasUsed, status),
          row |-> <<TransactionRow(Len(txs) + 1, walletId, hash, from, to, amount, gasPrice, gasUsed, status)>>]

(* WalletService.storeTransaction: the INSERT, or on 23505 the row found by hash *)
storeTransaction(walletId, hash, from, to, amount, gasPrice, gasUsed, status) ==
    IF UniqueViolation(hash)
    THEN [table |-> txs, row |-> findByHash(hash)]
    ELSE [table |-> createTransaction(walletId, hash, from, to, amount, gasPrice, gasUsed, status),
          row |-> <<TransactionRow(Len(txs) + 1, walletId, hash, from, to, amount, gasPrice, gasUsed, status)>>]

(* ------------------------------ the chain ------------------------------ *)
NoChainTx == [state |-> "none", from |-> "", to |-> "", value |-> 0, block |-> 0]

Known == {h \in DOMAIN chain : chain[h].state # "none"}
Mined == {h \in DOMAIN chain : chain[h].state \in {"success", "reverted"}}

(* the hash of the next broadcast: never seen before *)
NextHash == Cardinality(Known) + 1

(* mined transactions touching an address, newest block first *)
RECURSIVE NewestFirst(_, _)
NewestFirst(address, block) ==
    IF block = 0 THEN <<>>
    ELSE LET hit == {h \in Mined : chain[h].block = block
                                   /\ (chain[h].from = address \/ chain[h].to = address)}
         IN  (IF hit = {} THEN <<>> ELSE <<CHOOSE h \in hit : TRUE>>)
             \o NewestFirst(address, block - 1)

FirstN(list, n) == SubSeq(list, 1, IF n < Len(list) THEN n ELSE Len(list))

(* BlockchainService.getTransactionHistory with an explorer key: txlist, sort=desc,
   offset=limit; status from txreceipt_status *)
ExplorerHistory(address, limit) ==
    LET hs == FirstN(NewestFirst(address, Cardinality(Mined)), limit)
    IN  [i \in 1..Len(hs) |->
            [hash |-> hs[i], gasPrice |-> "gasPrice", gasUsed |-> "21000",
             status |-> IF chain[hs[i]].state = "success" THEN "confirmed" ELSE "failed"]]

(* BlockchainService.getBasicTransactionHistory: block scan; no gasUsed, no status *)
getBasicTransactionHistory(address, limit) ==
    LET hs == FirstN(NewestFirst(address, Cardinality(Mined)), limit)
    IN  [i \in 1..Len(hs) |->
            [hash |-> hs[i], gasPrice |-> "gasPrice", gasUsed |-> "null", status |-> "undefined"]]

(* BlockchainService.getTransaction: status from the receipt, 'pending' without one *)
TransactionDetails(hash, receiptSeen) ==
    IF receiptSeen
    THEN [status |-> IF chain[hash].state = "success" THEN "confirmed" ELSE "failed",
          gasUsed |-> "21000", blockNumber |-> chain[hash].block, timestamp |-> chain[hash].block]
    ELSE [status |-> "pending", gasUsed |-> "0", blockNumber |-> 0, timestamp |-> 0]

NoDetails == [status |-> "", gasUsed |-> "", blockNumber |-> 0, timestamp |-> 0]
NoTask == [pc |-> "none", details |-> NoDetails]

(* ------------------------------- Init ---------------------------------- *)
(* --------------------------- rate limiting ----------------------------- *)
(* steps of the clock and how far it runs *)
TickMs == 22500
MaxTicks == 3
(* requests still modelled after the peer is over the quota *)
MaxOver == 2

(* new RateLimiterMemory({ points, duration, blockDuration }), in seconds *)
GeneralLimiter == [points |-> 100, duration |-> 900, blockDuration |-> 60]
AuthLimiter == [points |-> 5, duration |-> 900, blockDuration |-> 900]
TransactionLimiter == [points |-> 10, duration |-> 3600, blockDuration |-> 3600]
LimiterNames == {"general", "auth", "transaction"}

(* the limiter holds nothing for the key *)
NoRecord == [consumed |-> 0, expiresAt |-> 0]

(* the limiter's storage: add to a live record, start a new window otherwise *)
incrby(record, points, durationSec, t) ==
    IF record.expiresAt > t
    THEN [record EXCEPT !.consumed = @ + points]
    ELSE [consumed |-> points, expiresAt |-> t + durationSec * 1000]

(* limiter.consume(key): resolves while the record stays within the points;
   the first request above them replaces the record by one that expires
   after blockDuration, and the promise rejects with msBeforeNext *)
consume(limiter, record, t) ==
    LET res == incrby(record, 1, limiter.duration, t)
    IN  IF res.consumed > limiter.points
        THEN IF limiter.blockDuration > 0 /\ res.consumed <= limiter.points + 1
             THEN [ok |-> FALSE,
                   record |-> [consumed |-> res.consumed,
                               expiresAt |-> t + limiter.blockDuration * 1000],
                   msBeforeNext |-> limiter.blockDuration * 1000]
             ELSE [ok |-> FALSE, record |-> res, msBeforeNext |-> res.expiresAt - t]
        ELSE [ok |-> TRUE, record |-> res, msBeforeNext |-> res.expiresAt - t]

(* error.msBeforeNext ? Math.ceil(error.msBeforeNext / 1000) : fallback *)
retryAfter(msBeforeNext, fallback) ==
    IF msBeforeNext # 0 THEN (msBeforeNext + 999) \div 1000 ELSE fallback

(* the operations a request can carry and the endpoint class of each *)
RequestKinds == {"register", "login", "sendFunds", "query"}
EndpointClass(kind) ==
    IF kind \in {"register", "login"} THEN "auth"
    ELSE IF kind = "sendFunds" THEN "transfer" ELSE "general"

(* a client that has read no page yet *)
NoPages == [stage |-> 0, walletId |-> 0, k |-> 0, first |-> <<>>, second |-> <<>>,
            before |-> {}, full |-> {}]

(* no HTTP request handled yet *)
NoHttp == [status |-> 0, next |-> FALSE, retryAfter |-> 0,
           error |-> "none", over |-> FALSE]

(* the encryption module has not been called *)
NoOpened == [called |-> FALSE, token |-> <<>>, ok |-> FALSE, text |-> 0]
NoVault == [drawn |-> 0, sealed |-> <<>>, opened |-> NoOpened]

(* a process whose environment sets both secrets and whose server listens *)
Listening == [jwtSecret |-> TRUE, encryptionKey |-> TRUE, phase |-> "listening"]

(* the state of a process in one of the given states, the database empty and
   the chain with room for the given transaction hashes *)
InitState(hashes, procs) ==
    /\ nodeEnv \in NodeEnvs
    /\ etherscanKey \in BOOLEAN
    /\ wallets = <<>>
    /\ txs = <<>>
    /\ statusWrites = <<>>
    /\ chain = [h \in hashes |-> NoChainTx]
    /\ balance = [a \in WalletAddrs |-> 0]
    /\ reqs = [s \in Slots |-> NoReq]
    /\ tasks = [h \in hashes |-> NoTask]
    /\ resp = NoResp
    /\ limiters = [l \in LimiterNames |-> NoRecord]
    /\ now = 0
    /\ http = NoHttp
    /\ admitted = [auth |-> 0, transfer |-> 0]
    /\ quotaEnd = 0
    /\ pages = NoPages
    /\ boot = [starts |-> 0, orphaned |-> {}]
    /\ proc \in procs
    /\ users = <<>>
    /\ vault = NoVault

(* the state after server start, with room for the given transaction hashes *)
InitWith(hashes) == InitState(hashes, {Listening})

Init == InitWith(Hashes)

edge == <<limiters, now, http, admitted, quotaEnd>>
config == <<nodeEnv, etherscanKey>>
db == <<wallets, txs, statusWrites>>
world == <<chain, balance>>

(* --------------------------- error values ------------------------------ *)
AuthRequired == PlainError("Authentication required")
WalletNotFound == PlainError("Wallet not found")
InvalidRecipient == PlainError("Invalid recipient address")
InsufficientBalance == PlainError("Insufficient balance")
ProviderFailure == PlainError("could not detect network")
DecryptFailure == PlainError("Unsupported state or unable to authenticate data")
StoreFailure == PlainError("Failed to store transaction")
HistoryFailure == PlainError("Failed to fetch transaction history")
BalanceFailure == PlainError("Failed to fetch balance")
CreateFailure == PlainError("Failed to create wallet")
InvalidFormat == AppError("Invalid Ethereum address format", 400)
TransactionNotFound == AppError("Transaction not found", 404)
WalletNotFound404 == AppError("Wallet not found", 404)

(* status = 'pending' default parameter of storeTransaction: used when undefined *)
StatusOrDefault(status) == IF status = "undefined" THEN "pending" ELSE status

Finish(s, response) ==
    /\ reqs' = [reqs EXCEPT ![s] = NoReq]
    /\ resp' = response

Continue(s, pc, calls) ==
    /\ reqs' = [reqs EXCEPT ![s].pc = pc, ![s].calls = calls]
    /\ resp' = NoResp

(* the event loop is free to run the next continuation: the last response is out *)
Ready == resp = NoResp


(* ------------------------ wallet creation, reads ----------------------- *)
(* Mutation.createWallet -> WalletService.createWallet *)
createWallet(header, network, entropy) ==
    LET user == authenticateGraphQL(header)
        privateKey == FreshPrivateKey
        calls == {"blockchain.createWallet", "encrypt", "createWallet"}
    IN  /\ Ready
        /\ UNCHANGED <<vault, proc, users, boot, pages, edge, config, txs, statusWrites, world, reqs, tasks>>
        /\ IF ~requireAuth(user)
           THEN /\ resp' = Reject("createWallet", user, 0, AuthRequired, {})
                /\ UNCHANGED wallets
           ELSE \/ /\ Len(wallets) < MaxWallets
                   /\ wallets' = Append(wallets,
                          WalletRow(Len(wallets) + 1, user, AddressOf(privateKey),
                                    encrypt(privateKey, entropy[1], entropy[2]), network))
                   /\ resp' = [Reply("createWallet", user, Len(wallets) + 1,
                                     <<Project(wallets'[Len(wallets) + 1], PublicColumns)>>, calls)
                               EXCEPT !.mnemonic = MnemonicOf(privateKey)]
                \/ /\ resp' = Reject("createWallet", user, 0, CreateFailure, calls)
                   /\ UNCHANGED wallets

(* Query.wallets -> WalletService.getWalletsByUserId *)
walletsQuery(header) ==
    LET user == authenticateGraphQL(header)
    IN  /\ Ready
        /\ UNCHANGED <<vault, proc, users, boot, pages, edge, config, db, world, reqs, tasks>>
        /\ resp' = IF ~requireAuth(user)
                   THEN Reject("wallets", user, 0, AuthRequired, {})
                   ELSE Reply("wallets", user, 0, findWalletsByUserId(user), {"findByUserId"})

(* Query.wallet -> WalletService.getWalletById *)
walletQuery(header, id) ==
    LET user == authenticateGraphQL(header)
    IN  /\ Ready
        /\ UNCHANGED <<vault, proc, users, boot, pages, edge, config, db, world, reqs, tasks>>
        /\ resp' = IF ~requireAuth(user)
                   THEN Reject("wallet", user, 0, AuthRequired, {})
                   ELSE IF findByIdAndUserId(id, user) = <<>>
                   THEN Reject("wallet", user, id, WalletNotFound404, {"findByIdAndUserId"})
                   ELSE Reply("wallet", user, id, findByIdAndUserId(id, user),
                              {"findByIdAndUserId"})

(* Query.transaction -> WalletService.getTransaction *)
transactionQuery(header, hash) ==
    LET user == authenticateGraphQL(header)
    IN  /\ Ready
        /\ UNCHANGED <<vault, proc, users, boot, pages, edge, config, db, world, reqs, tasks>>
        /\ resp' = IF ~requireAuth(user)
                   THEN Reject("transaction", user, 0, AuthRequired, {})
                   ELSE IF findByHashAndUserId(hash, user) = <<>>
                   THEN Reject("transaction", user, 0, TransactionNotFound,
                               {"findByHashAndUserId"})
                   ELSE Reply("transaction", user, 0, findByHashAndUserId(hash, user),
                              {"findByHashAndUserId"})

(* Query.me -> AuthService.getUserById *)
meQuery(header) ==
    LET user == authenticateGraphQL(header)
    IN  /\ Ready
        /\ UNCHANGED <<vault, proc, users, boot, pages, edge, config, db, world, reqs, tasks>>
        /\ resp' = IF ~requireAuth(user)
                   THEN Reject("me", user, 0, AuthRequired, {})
                   ELSE Reply("me", user, 0, <<[id |-> user]>>, {"findByIdPublic"})

(* Query.balance -> WalletService.getBalance -> BlockchainService.getBalance *)
balanceQuery(header, walletId) ==
    LET user == authenticateGraphQL(header)
        address == wallets[walletId].address
    IN  /\ Ready
        /\ UNCHANGED <<vault, proc, users, boot, pages, edge, config, db, world, reqs, tasks>>
        /\ IF ~requireAuth(user)
           THEN resp' = Reject("balance", user, 0, AuthRequired, {})
           ELSE IF findByIdAndUserId(walletId, user) = <<>>
           THEN resp' = Reject("balance", user, walletId, WalletNotFound, {"findByIdAndUserId"})
           ELSE \/ resp' = Reply("balance", user, walletId,
                                 <<[walletId |-> walletId, address |-> address,
                                    network |-> wallets[walletId].network,
                                    wei |-> balance[address],
                                    ether |-> formatEther(balance[address])]>>,
                                 {"findByIdAndUserId", "getBalance"})
                \/ resp' = Reject("balance", user, walletId, BalanceFailure,
                                  {"findByIdAndUserId", "getBalance"})

(* ------------------------------ sendFunds ------------------------------ *)
(* Mutation.sendFunds -> WalletService.sendFunds -> BlockchainService.sendTransaction,
   up to the first provider call: requireAuth, validate(schemas.sendFunds),
   findWithPrivateKey, decrypt, ethers.isAddress *)
sendFundsStart(s, header, walletId, toAddress, amount) ==
    LET user == authenticateGraphQL(header)
        found == findWithPrivateKey(walletId, user)
        token == found[1].encrypted_private_key
    IN  /\ Ready
        /\ FreeSlot(s)
        /\ UNCHANGED <<vault, proc, users, boot, pages, edge, config, db, world, tasks>>
        /\ IF ~requireAuth(user)
           THEN Finish(s, Reject("sendFunds", user, 0, AuthRequired, {}))
           ELSE IF ~isValidEthereumAddress(toAddress)
           THEN Finish(s, Reject("sendFunds", user, walletId, InvalidFormat, {}))
           ELSE IF found = <<>>
           THEN Finish(s, Reject("sendFunds", user, walletId, WalletNotFound,
                                 {"findWithPrivateKey"}))
           ELSE IF ~DecryptOk(token)
           THEN Finish(s, Reject("sendFunds", user, walletId, DecryptFailure,
                                 {"findWithPrivateKey", "decrypt"}))
           ELSE IF ~isAddress(toAddress)
           THEN Finish(s, Reject("sendFunds", user, walletId, InvalidRecipient,
                                 {"findWithPrivateKey", "decrypt"}))
           ELSE /\ reqs' = [reqs EXCEPT ![s] =
                        [NoReq EXCEPT !.op = "sendFunds", !.pc = "getBalance",
                                      !.user = user, !.walletId = walletId, !.to = toAddress,
                                      !.amount = amount, !.privateKey = decrypt(token),
                                      !.calls = {"findWithPrivateKey", "decrypt"}]]
                /\ resp' = NoResp

(* a gateway that never finds the balance too low *)
InsufficientFundsNever(walletBalance, amount) == FALSE

(* wei that sends past their balance check have yet to take from the wallets *)
RECURSIVE InFlight(_)
InFlight(n) ==
    IF n = 0 THEN 0
    ELSE InFlight(n - 1)
         + (IF reqs[n].op = "sendFunds" /\ reqs[n].pc \in {"broadcast", "store"}
            THEN parseEther(reqs[n].amount) ELSE 0)

(* a balance check that sets aside what the sends in flight are about to spend *)
InsufficientFundsReserving(walletBalance, amount) == walletBalance < amount + InFlight(MaxReq)

(* sendTransaction: if (balance < amount) throw new Error('Insufficient balance') *)
InsufficientFunds(walletBalance, amount) == walletBalance < amount

(* sendTransaction: provider.getBalance(wallet.address) answered, the check follows *)
sendTransactionGetBalance(s) ==
    LET r == reqs[s]
        calls == r.calls \cup {"getBalance"}
    IN  /\ Ready
        /\ r.op = "sendFunds" /\ r.pc = "getBalance"
        /\ UNCHANGED <<vault, proc, users, boot, pages, edge, config, db, world, tasks>>
        /\ \/ IF InsufficientFunds(balance[AddressOf(r.privateKey)], parseEther(r.amount))
              THEN Finish(s, Reject("sendFunds", r.user, r.walletId, InsufficientBalance, calls))
              ELSE Continue(s, "broadcast", calls)
           \/ Finish(s, Reject("sendFunds", r.user, r.walletId, ProviderFailure, calls))

(* sendTransaction: provider.estimateGas and getFeeData answered, then
   wallet.sendTransaction signs and broadcasts and the hash comes back *)
sendTransactionBroadcast(s) ==
    LET r == reqs[s]
    IN  /\ Ready
        /\ r.op = "sendFunds" /\ r.pc = "broadcast"
        /\ UNCHANGED <<vault, proc, users, boot, pages, edge, config, db, balance, tasks>>
        /\ \/ /\ NextHash \in DOMAIN chain
              /\ chain' = [chain EXCEPT ![NextHash] =
                    [state |-> "pending", from |-> AddressOf(r.privateKey), to |-> r.to,
                     value |-> parseEther(r.amount), block |-> 0]]
              /\ reqs' = [reqs EXCEPT ![s].pc = "store", ![s].hash = NextHash,
                                      ![s].calls = r.calls \cup {"estimateGas", "broadcast"}]
              /\ resp' = NoResp
           \/ /\ \E calls \in {{"estimateGas"}, {"estimateGas", "broadcast"}} :
                    Finish(s, Reject("sendFunds", r.user, r.walletId, ProviderFailure,
                                     r.calls \cup calls))
              /\ UNCHANGED chain

(* a sendFunds that starts updateTransactionStatus(hash) as soon as the
   broadcast has returned, whatever becomes of the insert *)
sendFundsStoreTaskFirst(s) ==
    LET r == reqs[s]
        stored == storeTransaction(r.walletId, r.hash, AddressOf(r.privateKey), r.to,
                                   r.amount, "maxFeePerGas", "null", "pending")
        calls == r.calls \cup {"storeTransaction"}
                 \cup (IF UniqueViolation(r.hash) THEN {"findByHash"} ELSE {})
    IN  /\ Ready
        /\ r.op = "sendFunds" /\ r.pc = "store"
        /\ UNCHANGED <<vault, proc, users, boot, pages, edge, config, wallets, world>>
        /\ tasks' = [tasks EXCEPT ![r.hash] = [pc |-> "wait", details |-> NoDetails]]
        /\ \/ /\ txs' = stored.table
              /\ statusWrites' = IF Len(stored.table) > Len(txs) THEN Append(statusWrites, 0)
                                 ELSE statusWrites
              /\ Finish(s, [Reply("sendFunds", r.user, r.walletId, stored.row, calls)
                            EXCEPT !.hash = r.hash])
           \/ /\ Finish(s, Reject("sendFunds", r.user, r.walletId, StoreFailure, calls))
              /\ UNCHANGED <<txs, statusWrites>>

(* sendFunds after the broadcast: storeTransaction, then the detached
   updateTransactionStatus(hash) is started and the result returned *)
sendFundsStore(s) ==
    LET r == reqs[s]
        stored == storeTransaction(r.walletId, r.hash, AddressOf(r.privateKey), r.to,
                                   r.amount, "maxFeePerGas", "null", "pending")
        calls == r.calls \cup {"storeTransaction"}
                 \cup (IF UniqueViolation(r.hash) THEN {"findByHash"} ELSE {})
    IN  /\ Ready
        /\ r.op = "sendFunds" /\ r.pc = "store"
        /\ UNCHANGED <<vault, proc, users, boot, pages, edge, config, wallets, world>>
        /\ \/ /\ txs' = stored.table
              /\ statusWrites' = IF Len(stored.table) > Len(txs) THEN Append(statusWrites, 0)
                                 ELSE statusWrites
              /\ tasks' = [tasks EXCEPT ![r.hash] = [pc |-> "wait", details |-> NoDetails]]
              /\ Finish(s, [Reply("sendFunds", r.user, r.walletId, stored.row, calls)
                            EXCEPT !.hash = r.hash])
           \/ /\ Finish(s, Reject("sendFunds", r.user, r.walletId, StoreFailure, calls))
              /\ UNCHANGED <<txs, statusWrites, tasks>>

(* ------------------- updateTransactionStatus (detached) ---------------- *)
(* waitForTransaction(hash, 1) resolves once the transaction is mined and
   getTransaction(hash) answers: null, details with or without a receipt;
   or one of the two rejects (timeout, provider failure) and the task ends *)
updateStatusFetch(h) ==
    /\ Ready
    /\ tasks[h].pc = "wait"
    /\ UNCHANGED <<vault, proc, users, boot, pages, edge, config, db, world, reqs, resp>>
    /\ \/ /\ h \in Mined
          /\ \/ \E receiptSeen \in BOOLEAN :
                  tasks' = [tasks EXCEPT ![h] = [pc |-> "update",
                                                 details |-> TransactionDetails(h, receiptSeen)]]
             \/ tasks' = [tasks EXCEPT ![h].pc = "done"]
       \/ tasks' = [tasks EXCEPT ![h].pc = "failed"]

(* a reconciliation that starts over when the database update fails *)
updateStatusWriteRetried(h) ==
    /\ Ready
    /\ tasks[h].pc = "update"
    /\ UNCHANGED <<vault, proc, users, boot, pages, edge, config, wallets, world, reqs, resp>>
    /\ \/ /\ txs' = updateTransactionStatus(h, tasks[h].details)
          /\ statusWrites' = [i \in 1..Len(txs) |->
                IF txs[i].transaction_hash = h THEN statusWrites[i] + 1 ELSE statusWrites[i]]
          /\ tasks' = [tasks EXCEPT ![h] = [pc |-> "done", details |-> NoDetails]]
       \/ /\ tasks' = [tasks EXCEPT ![h] = [pc |-> "wait", details |-> NoDetails]]
          /\ UNCHANGED <<txs, statusWrites>>

(* transactionRepository.updateTransactionStatus runs, or the database fails *)
updateStatusWrite(h) ==
    /\ Ready
    /\ tasks[h].pc = "update"
    /\ UNCHANGED <<vault, proc, users, boot, pages, edge, config, wallets, world, reqs, resp>>
    /\ \/ /\ txs' = updateTransactionStatus(h, tasks[h].details)
          /\ statusWrites' = [i \in 1..Len(txs) |->
                IF txs[i].transaction_hash = h THEN statusWrites[i] + 1 ELSE statusWrites[i]]
          /\ tasks' = [tasks EXCEPT ![h] = [pc |-> "done", details |-> NoDetails]]
       \/ /\ tasks' = [tasks EXCEPT ![h] = [pc |-> "failed", details |-> NoDetails]]
          /\ UNCHANGED <<txs, statusWrites>>

(* ------------------------ getTransactionHistory ------------------------ *)
(* Query.transactions -> WalletService.getTransactionHistory, up to the history pull *)
transactionsStart(s, header, walletId, limit, offset) ==
    LET user == authenticateGraphQL(header)
    IN  /\ Ready
        /\ FreeSlot(s)
        /\ UNCHANGED <<vault, proc, users, boot, pages, edge, config, db, world, tasks>>
        /\ IF ~requireAuth(user)
           THEN Finish(s, Reject("transactions", user, 0, AuthRequired, {}))
           ELSE IF findByIdAndUserId(walletId, user) = <<>>
           THEN Finish(s, Reject("transactions", user, walletId, HistoryFailure,
                                 {"findByIdAndUserId"}))
           ELSE /\ reqs' = [reqs EXCEPT ![s] =
                        [NoReq EXCEPT !.op = "transactions", !.pc = "pull",
                                      !.user = user, !.walletId = walletId, !.limit = limit,
                                      !.offset = offset, !.calls = {"findByIdAndUserId"}]]
                /\ resp' = NoResp

(* how the source of the history answers: the list; an answer with an error
   status; no answer (the request throws) *)
HistoryAnswers == {"list", "errorStatus", "throws"}

(* BlockchainService.getTransactionHistory(address, limit): without an explorer
   key the block scan, which returns what it has found and [] when the provider
   fails; with a key the explorer's list, and [] when the explorer answers with
   an error status or the request throws *)
getTransactionHistory(answer, address, limit) ==
    IF ~etherscanKey
    THEN [list |-> IF answer = "list" THEN getBasicTransactionHistory(address, limit) ELSE <<>>,
          calls |-> {"getTransactionHistory", "getBasicTransactionHistory"}]
    ELSE [list |-> IF answer = "list" THEN ExplorerHistory(address, limit) ELSE <<>>,
          calls |-> {"getTransactionHistory", "fetch"}]

(* blockchainService.getTransactionHistory(wallet.address, limit) answered *)
historyPull(s, answer) ==
    LET r == reqs[s]
        pulled == getTransactionHistory(answer, wallets[r.walletId].address, r.limit)
    IN  /\ Ready
        /\ r.op = "transactions" /\ r.pc = "pull"
        /\ UNCHANGED <<vault, proc, users, boot, pages, edge, config, db, world, tasks, resp>>
        /\ reqs' = [reqs EXCEPT ![s].pc = "store", ![s].pulled = pulled.list,
                                ![s].calls = r.calls \cup pulled.calls]

(* a loop over blockchainTxs without its try/catch: a failed insert ends the request *)
historyStoreUncaught(s) ==
    LET r == reqs[s]
        tx == Head(r.pulled)
        stored == storeTransaction(r.walletId, tx.hash, chain[tx.hash].from, chain[tx.hash].to,
                                   formatEther(chain[tx.hash].value), tx.gasPrice, tx.gasUsed,
                                   StatusOrDefault(tx.status))
    IN  /\ Ready
        /\ r.op = "transactions" /\ r.pc = "store" /\ r.pulled # <<>>
        /\ UNCHANGED <<vault, proc, users, boot, pages, edge, config, wallets, world, tasks>>
        /\ \/ /\ txs' = stored.table
              /\ statusWrites' = IF Len(stored.table) > Len(txs) THEN Append(statusWrites, 0)
                                 ELSE statusWrites
              /\ reqs' = [reqs EXCEPT ![s].pulled = Tail(r.pulled),
                                      ![s].calls = r.calls \cup {"storeTransaction"}]
              /\ resp' = NoResp
           \/ /\ UNCHANGED <<txs, statusWrites>>
              /\ Finish(s, Reject("transactions", r.user, r.walletId, HistoryFailure,
                                  r.calls \cup {"storeTransaction"}))

(* one turn of the loop over blockchainTxs: storeTransaction, errors skipped *)
historyStore(s) ==
    LET r == reqs[s]
        tx == Head(r.pulled)
        stored == storeTransaction(r.walletId, tx.hash, chain[tx.hash].from, chain[tx.hash].to,
                                   formatEther(chain[tx.hash].value), tx.gasPrice, tx.gasUsed,
                                   StatusOrDefault(tx.status))
    IN  /\ Ready
        /\ r.op = "transactions" /\ r.pc = "store" /\ r.pulled # <<>>
        /\ UNCHANGED <<vault, proc, users, boot, pages, edge, config, wallets, world, tasks, resp>>
        /\ reqs' = [reqs EXCEPT ![s].pulled = Tail(r.pulled),
                                ![s].calls = r.calls \cup {"storeTransaction"}]
        /\ \/ /\ txs' = stored.table
              /\ statusWrites' = IF Len(stored.table) > Len(txs) THEN Append(statusWrites, 0)
                                 ELSE statusWrites
           \/ UNCHANGED <<txs, statusWrites>>

(* transactionRepository.findByWalletId(walletId, limit, offset) answered *)
historyRead(s) ==
    LET r == reqs[s]
        calls == r.calls \cup {"findByWalletId"}
    IN  /\ Ready
        /\ r.op = "transactions" /\ r.pc = "store" /\ r.pulled = <<>>
        /\ UNCHANGED <<vault, proc, users, boot, edge, config, db, world, tasks>>
        /\ \/ Finish(s, Reply("transactions", r.user, r.walletId,
                              findByWalletId(r.walletId, r.limit, r.offset), calls))
           \/ Finish(s, Reject("transactions", r.user, r.walletId, HistoryFailure, calls))

(* the response of the last step has gone out to its caller *)
Deliver ==
    /\ ~Ready
    /\ resp' = NoResp
    /\ UNCHANGED <<vault, proc, users, boot, pages, edge, config, db, world, reqs, tasks>>

(* --------------------------- the environment --------------------------- *)
(* funds arrive at a wallet's address from outside the system *)
Deposit(address) ==
    /\ Ready
    /\ \E i \in WalletIds : wallets[i].address = address
    /\ balance[address] < MaxBalance
    /\ balance' = [balance EXCEPT ![address] = balance[address] + 1]
    /\ UNCHANGED <<vault, proc, users, boot, pages, edge, config, db, chain, reqs, tasks, resp>>

(* a broadcast transaction is included in the next block: executed, or reverted *)
Mine(h, success) ==
    LET tx == chain[h]
    IN  /\ Ready
        /\ tx.state = "pending"
        /\ UNCHANGED <<vault, proc, users, boot, pages, edge, config, db, reqs, tasks, resp>>
        /\ IF success
           THEN /\ balance[tx.from] >= tx.value
                /\ chain' = [chain EXCEPT ![h].state = "success", ![h].block = Cardinality(Mined) + 1]
                /\ balance' = [a \in WalletAddrs |->
                      IF a = tx.from /\ a = tx.to THEN balance[a]
                      ELSE IF a = tx.from THEN balance[a] - tx.value
                      ELSE IF a = tx.to /\ balance[a] + tx.value <= MaxBalance
                           THEN balance[a] + tx.value
                      ELSE balance[a]]
           ELSE /\ chain' = [chain EXCEPT ![h].state = "reverted", ![h].block = Cardinality(Mined) + 1]
                /\ UNCHANGED balance

(* ---------------------------- HTTP layer ------------------------------- *)
(* res.status(429).json({ error, message, retryAfter }); next() is not called *)
TooManyRequests(msBeforeNext, fallback) ==
    [status |-> 429, next |-> FALSE,
     retryAfter |-> retryAfter(msBeforeNext, fallback),
     error |-> "Too many requests", over |-> quotaEnd > now]

(* next(): the request goes on to the routes and the GraphQL handler *)
PassedOn ==
    [status |-> 0, next |-> TRUE, retryAfter |-> 0,
     error |-> "none", over |-> quotaEnd > now]

(* one more request of a limited class reached the handlers *)
Admit(kind) ==
    LET class == EndpointClass(kind)
    IN  IF class = "auth"
        THEN [admitted EXCEPT !.auth = IF @ > AuthLimiter.points THEN @ ELSE @ + 1]
        ELSE IF class = "transfer"
        THEN [admitted EXCEPT !.transfer = IF @ > TransactionLimiter.points THEN @ ELSE @ + 1]
        ELSE admitted

(* a middleware that consumes one point of the named limiter for the peer *)
limitMiddleware(name, limiter, fallback, kind) ==
    LET out == consume(limiter, limiters[name], now)
    IN  /\ limiters[name].expiresAt > now => limiters[name].consumed < limiter.points + MaxOver
        /\ limiters' = [limiters EXCEPT ![name] = out.record]
        /\ IF out.ok
           THEN /\ http' = PassedOn
                /\ admitted' = Admit(kind)
           ELSE /\ http' = TooManyRequests(out.msBeforeNext, fallback)
                /\ UNCHANGED admitted
        /\ quotaEnd' = IF name = "general" /\ out.ok /\ out.record.consumed = limiter.points
                       THEN out.record.expiresAt
                       ELSE IF quotaEnd > now THEN quotaEnd ELSE 0
        /\ UNCHANGED <<vault, proc, users, boot, pages, now, config, db, world, reqs, tasks, resp>>

(* app.use(rateLimitMiddleware): every request of the peer, whatever it carries *)
rateLimitMiddleware(kind) == limitMiddleware("general", GeneralLimiter, 60, kind)

(* exported, mounted on no route *)
authRateLimitMiddleware(kind) == limitMiddleware("auth", AuthLimiter, 900, kind)
transactionRateLimitMiddleware(kind) == limitMiddleware("transaction", TransactionLimiter, 3600, kind)

(* time passes *)
Tick ==
    /\ now < MaxTicks * TickMs
    /\ now' = now + TickMs
    /\ UNCHANGED <<vault, proc, users, boot, pages, limiters, http, admitted, quotaEnd, config, db, world, reqs, tasks, resp>>

(* ------------------------------- Next ---------------------------------- *)
(* the resolver's defaults: transactions(walletId, limit = 10, offset = 0) *)
DefaultLimit == 10
DefaultOffset == 0

(* headers carrying a token that verifies *)
SignedHeaders == {h \in Headers : verifyToken(h)}

(* no request of the two-step operations is in flight *)
Idle == \A s \in Slots : FreeSlot(s)

(* the continuations of requests in flight, the detached tasks, the chain *)
Background ==
    \/ \E s \in Slots : sendTransactionGetBalance(s)
    \/ \E s \in Slots : sendTransactionBroadcast(s)
    \/ \E s \in Slots : sendFundsStore(s)
    \/ \E h \in Hashes : updateStatusFetch(h)
    \/ \E h \in Hashes : updateStatusWrite(h)
    \/ \E s \in Slots, answer \in HistoryAnswers : historyPull(s, answer)
    \/ \E s \in Slots : historyStore(s)
    \/ \E s \in Slots : historyRead(s) /\ UNCHANGED pages
    \/ Deliver
    \/ \E address \in WalletAddrs : Deposit(address)
    \/ \E h \in Hashes, success \in BOOLEAN : Mine(h, success)

(* signed-in users working concurrently: requests overlap at their awaits *)
Next ==
    \/ \E header \in SignedHeaders, network \in Networks, entropy \in Entropy :
          createWallet(header, network, entropy)
    \/ \E header \in SignedHeaders, walletId \in 1..MaxWallets,
          toAddress \in WalletAddrs, amount \in Amounts :
          sendFundsStart(1, header, walletId, toAddress, amount)
    \/ \E header \in SignedHeaders, walletId \in 1..MaxWallets :
          transactionsStart(2, header, walletId, DefaultLimit, DefaultOffset)
    \/ Background

Spec == Init /\ [][Next]_vars

(* the whole API, any header and any argument, one request at a time *)
NextApi ==
    \/ \E header \in Headers, network \in Networks, entropy \in Entropy :
          Idle /\ createWallet(header, network, entropy)
    \/ \E header \in Headers : Idle /\ walletsQuery(header)
    \/ \E header \in Headers, id \in 1..MaxWallets : Idle /\ walletQuery(header, id)
    \/ \E header \in Headers, hash \in Hashes : Idle /\ transactionQuery(header, hash)
    \/ \E header \in Headers : Idle /\ meQuery(header)
    \/ \E header \in Headers, walletId \in 1..MaxWallets : Idle /\ balanceQuery(header, walletId)
    \/ \E header \in Headers, walletId \in 1..MaxWallets,
          toAddress \in ToAddresses, amount \in Amounts :
          Idle /\ sendFundsStart(1, header, walletId, toAddress, amount)
    \/ \E header \in Headers, walletId \in 1..MaxWallets :
          Idle /\ transactionsStart(1, header, walletId, DefaultLimit, DefaultOffset)
    \/ Background

SpecApi == Init /\ [][NextApi]_vars

(* the peer's HTTP requests through the middleware chain of the server *)
NextHttp ==
    \/ \E kind \in RequestKinds : rateLimitMiddleware(kind)
    \/ Tick

SpecHttp == Init /\ [][NextHttp]_vars

(* ------------------------- paging through a list ----------------------- *)
(* transactions on the chain and page sizes of the paging client *)
MaxPageHashes == 3
MaxPage == 2

(* server start with room for more transactions on the chain *)
InitPages == InitWith(1..MaxPageHashes)

(* a transfer from outside to a wallet's address is mined in the next block *)
Receive(address) ==
    /\ Ready
    /\ \E i \in WalletIds : wallets[i].address = address
    /\ NextHash \in DOMAIN chain
    /\ chain' = [chain EXCEPT ![NextHash] =
          [state |-> "success", from |-> ExternalAddr, to |-> address, value |-> 1,
           block |-> Cardinality(Mined) + 1]]
    /\ balance' = [balance EXCEPT ![address] = IF @ < MaxBalance THEN @ + 1 ELSE @]
    /\ UNCHANGED <<vault, proc, users, boot, pages, edge, config, db, reqs, tasks, resp>>

(* transaction hashes of the rows of a page, in the page's order *)
HashesOf(rows) == [i \in 1..Len(rows) |-> rows[i].transaction_hash]

(* the client keeps the page the transactions query in slot s has just returned:
   a page at offset 0 starts a walk, the page at offset k of the same wallet
   with the same k continues it *)
RecordPage(s) ==
    LET r == reqs[s]
        stored == {txs[i].transaction_hash : i \in {j \in 1..Len(txs) : txs[j].wallet_id = r.walletId}}
    IN  pages' =
          IF ~resp'.ok THEN NoPages
          ELSE IF r.offset = 0
          THEN [stage |-> 1, walletId |-> r.walletId, k |-> r.limit,
                first |-> HashesOf(resp'.body), second |-> <<>>,
                before |-> stored, full |-> stored]
          ELSE IF pages.stage = 1 /\ pages.walletId = r.walletId /\ pages.k = r.limit
                  /\ r.offset = r.limit
          THEN [pages EXCEPT !.stage = 2, !.second = HashesOf(resp'.body), !.full = stored]
          ELSE NoPages

(* the token of the paging client *)
ClientHeader == [present |-> TRUE, userId |-> 1, valid |-> TRUE]

(* one signed-in client pages through its wallets' lists while transfers arrive *)
NextPages ==
    \/ \E network \in Networks, entropy \in Entropy :
          Idle /\ createWallet(ClientHeader, network, entropy)
    \/ \E walletId \in 1..MaxWallets, k \in 1..MaxPage, first \in BOOLEAN :
          Idle /\ transactionsStart(1, ClientHeader, walletId, k, IF first THEN 0 ELSE k)
    \/ \E s \in Slots, answer \in HistoryAnswers : historyPull(s, answer)
    \/ \E s \in Slots : historyStore(s)
    \/ \E s \in Slots : historyRead(s) /\ RecordPage(s)
    \/ Deliver
    \/ \E address \in WalletAddrs : Receive(address)

SpecPages == InitPages /\ [][NextPages]_vars

(* --------------------------- process restart --------------------------- *)
MaxRestartHashes == 2
MaxRestarts == 1

(* hashes whose row is pending while their updateTransactionStatus has not finished *)
Unreconciled ==
    {h \in DOMAIN tasks : /\ tasks[h].pc \in {"wait", "update"}
                          /\ \E i \in RowsWithHash(h) : txs[i].status = "pending"}

(* the process exits (signal, uncaught exception) and is started again: requests
   in flight, detached tasks and the limiters' memory are gone, the database
   and the chain are as they were *)
Restart ==
    /\ boot.starts < MaxRestarts
    /\ reqs' = [s \in Slots |-> NoReq]
    /\ tasks' = [h \in DOMAIN tasks |-> NoTask]
    /\ resp' = NoResp
    /\ limiters' = [l \in LimiterNames |-> NoRecord]
    /\ boot' = [starts |-> boot.starts + 1, orphaned |-> boot.orphaned \cup Unreconciled]
    /\ UNCHANGED <<vault, proc, users, pages, now, http, admitted, quotaEnd, config, db, world>>

(* one signed-in client sending from and listing its wallet, one request at a time, with the
   detached tasks and the chain; the process terminates while a pending row
   waits for its task *)
NextRestart ==
    \/ \E network \in Networks, entropy \in Entropy :
          Idle /\ wallets = <<>> /\ createWallet(ClientHeader, network, entropy)
    \/ \E amount \in Amounts :
          Idle /\ sendFundsStart(1, ClientHeader, 1, AddressOf(2), amount)
    \/ Idle /\ transactionsStart(1, ClientHeader, 1, DefaultLimit, DefaultOffset)
    \/ \E s \in Slots : sendTransactionGetBalance(s)
    \/ \E s \in Slots : sendTransactionBroadcast(s)
    \/ \E s \in Slots : sendFundsStore(s)
    \/ \E h \in DOMAIN tasks : updateStatusFetch(h)
    \/ \E h \in DOMAIN tasks : updateStatusWrite(h)
    \/ \E s \in Slots, answer \in HistoryAnswers : historyPull(s, answer)
    \/ \E s \in Slots : historyStore(s)
    \/ \E s \in Slots : historyRead(s) /\ UNCHANGED pages
    \/ Deliver
    \/ \E address \in WalletAddrs : Deposit(address)
    \/ \E h \in DOMAIN chain, success \in BOOLEAN : Mine(h, success)
    \/ Unreconciled # {} /\ Restart

SpecRestart == InitWith(1..MaxRestartHashes) /\ [][NextRestart]_vars

(* ------------------------ global error handler ------------------------- *)
(* error.code values: PostgreSQL and connection codes, codes of the chain library *)
DatabaseCodes == {"23505", "23503", "23502", "22P02", "23514", "42P01", "42703", "53300",
                  "ECONNREFUSED"}
ChainCodes == {"INSUFFICIENT_FUNDS", "INVALID_ARGUMENT", "NETWORK_ERROR", "TIMEOUT",
               "UNPREDICTABLE_GAS_LIMIT", "CALL_EXCEPTION"}
ErrorNames == {"Error", "JsonWebTokenError", "TokenExpiredError", "ValidationError"}

(* messages of thrown errors, and the words the handler looks for in them *)
ErrorMessages == {"insufficient funds for transaction", "invalid address",
                  "could not detect network", "cannot estimate gas", "nonce too low",
                  "execution reverted", "connection terminated unexpectedly"}
Includes(message, word) ==
    \/ word = "insufficient funds" /\ message = "insufficient funds for transaction"
    \/ word = "invalid address" /\ message = "invalid address"
    \/ word = "network" /\ message = "could not detect network"
    \/ word = "gas" /\ message = "cannot estimate gas"
    \/ word = "nonce" /\ message = "nonce too low"
    \/ word = "revert" /\ message = "execution reverted"

(* an error as the handler sees it: e with its code ("" when it has none) and name *)
Thrown(e, code, name) ==
    [message |-> e.message, appError |-> e.appError, statusCode |-> e.statusCode,
     isOperational |-> e.isOperational, code |-> code, name |-> name]

(* the errors passed to next(err): library and driver errors, and AppError instances *)
ThrownErrors ==
    {Thrown(PlainError(m), code, name) :
        m \in ErrorMessages, code \in {""} \cup DatabaseCodes \cup ChainCodes, name \in ErrorNames}
    \cup {Thrown(e, "", "Error") :
            e \in {InvalidFormat, TransactionNotFound, WalletNotFound404,
                   AppError("Unauthorized", 401), AppError("Forbidden", 403),
                   AppError("Resource already exists", 409), AppError("Too many requests", 429),
                   AppError("Service temporarily unavailable", 503),
                   AppError("Insufficient funds", 400), AppError("Invalid wallet address", 400)}}

(* new InternalServerError(message, false) and its subclass DatabaseError *)
InternalServerError(message) == [AppError(message, 500) EXCEPT !.isOperational = FALSE]

handleDatabaseError(err) ==
    CASE err.code = "23505" -> AppError("Resource already exists", 409)
      [] err.code = "23503" -> AppError("Related resource not found", 404)
      [] err.code = "23502" -> AppError("Required field missing", 400)
      [] err.code = "22P02" -> AppError("Invalid data format", 400)
      [] err.code = "23514" -> AppError("Data constraint violation", 400)
      [] err.code = "42P01" -> InternalServerError("Database configuration error")
      [] err.code = "42703" -> InternalServerError("Database schema error")
      [] err.code = "53300" -> AppError("Service temporarily unavailable", 503)
      [] err.code = "ECONNREFUSED" -> InternalServerError("Database connection failed")
      [] OTHER -> InternalServerError("Database operation failed")

handleBlockchainError(err) ==
    IF Includes(err.message, "insufficient funds") \/ err.code = "INSUFFICIENT_FUNDS"
    THEN AppError("Insufficient funds for transaction", 400)
    ELSE IF Includes(err.message, "invalid address") \/ err.code = "INVALID_ARGUMENT"
    THEN AppError("Invalid wallet address", 400)
    ELSE IF Includes(err.message, "network") \/ err.code \in {"NETWORK_ERROR", "TIMEOUT"}
    THEN AppError("Blockchain network error", 503)
    ELSE IF Includes(err.message, "gas") \/ err.code = "UNPREDICTABLE_GAS_LIMIT"
    THEN AppError("Transaction may fail", 400)
    ELSE IF Includes(err.message, "nonce") THEN AppError("Transaction nonce error", 400)
    ELSE IF Includes(err.message, "revert") THEN AppError("Transaction reverted", 400)
    ELSE AppError("Blockchain operation failed", 500)

(* normalizeError: the first test that matches decides *)
normalizeError(env, err) ==
    IF err.appError THEN err
    ELSE IF err.code # "" THEN handleDatabaseError(err)
    ELSE IF err.name = "JsonWebTokenError" THEN AppError("Invalid token", 401)
    ELSE IF err.name = "TokenExpiredError" THEN AppError("Token expired", 401)
    ELSE IF err.name = "ValidationError" THEN AppError(err.message, 422)
    ELSE IF err.code # "" THEN handleBlockchainError(err)
    ELSE InternalServerError(IF env = "production" THEN "Internal server error" ELSE err.message)

(* app.use(errorHandler): res.status(error.statusCode).json({ success: false,
   error: { message, statusCode } }) *)
errorHandler(err) ==
    LET error == normalizeError(nodeEnv, err)
    IN  /\ http' = [status |-> error.statusCode, next |-> FALSE, retryAfter |-> 0,
                    error |-> error.message, over |-> FALSE]
        /\ UNCHANGED <<vault, proc, users, boot, pages, limiters, now, admitted, quotaEnd, config, db, world,
                       reqs, tasks, resp>>

(* errors reaching the global handler, one after the other *)
NextErrors == \E err \in ThrownErrors : errorHandler(err)

SpecErrors == Init /\ [][NextErrors]_vars

(* ------------------------ process start, accounts ---------------------- *)
MaxUsers == 2
Usernames == {"alice", "bob"}

(* the modules are loaded (dotenv.config(), the constants of the services are
   set) and startServer() has not run; the environment sets each secret or not *)
Loaded == {[jwtSecret |-> j, encryptionKey |-> e, phase |-> "loaded"] : j, e \in BOOLEAN}

(* the HTTP server accepts requests *)
Serving == proc.phase = "listening"

(* startServer: await server.start(), the middleware is applied and app.listen
   is called; when server.start() rejects, the catch calls process.exit(1) *)
startServer ==
    /\ proc.phase = "loaded"
    /\ \/ proc' = [proc EXCEPT !.phase = "listening"]
       \/ proc' = [proc EXCEPT !.phase = "exited"]
    /\ UNCHANGED <<vault, users, boot, pages, edge, config, db, world, reqs, tasks, resp>>

(* const JWT_SECRET = process.env.JWT_SECRET || 'your-secret-key' *)
JWT_SECRET == IF proc.jwtSecret THEN "process.env.JWT_SECRET" ELSE "your-secret-key"

(* AuthService.generateToken: jwt.sign({ userId, username }, JWT_SECRET, ...) *)
generateToken(userId, username) ==
    [userId |-> userId, username |-> username, secret |-> JWT_SECRET]

(* INSERT INTO users (username, password_hash) *)
UserRow(id, username, passwordHash) ==
    [id |-> id, username |-> username, password_hash |-> passwordHash]

RowsWithUsername(username) == {i \in 1..Len(users) : users[i].username = username}

(* UserRepository.findByUsernamePublic: rows[0] || null, as a sequence of 0 or 1 rows *)
findByUsernamePublic(username) ==
    IF RowsWithUsername(username) = {} THEN <<>>
    ELSE LET i == CHOOSE j \in RowsWithUsername(username) : TRUE
         IN  <<[id |-> users[i].id, username |-> users[i].username]>>

(* a users table without the UNIQUE constraint on username *)
UsernameTakenNever(username) == FALSE

(* username VARCHAR(255) UNIQUE NOT NULL: the INSERT fails with code 23505 *)
UsernameTaken(username) == RowsWithUsername(username) # {}

UsernameExists == AppError("Username already exists", 409)
DuplicateKey == PlainError("duplicate key value violates unique constraint")

(* Mutation.register -> AuthService.register, up to the answer of
   findByUsernamePublic: the existence check *)
registerStart(s, username) ==
    /\ Ready
    /\ FreeSlot(s)
    /\ UNCHANGED <<vault, proc, users, boot, pages, edge, config, db, world, tasks>>
    /\ IF findByUsernamePublic(username) # <<>>
       THEN Finish(s, Reject("register", 0, 0, UsernameExists, {"findByUsernamePublic"}))
       ELSE /\ reqs' = [reqs EXCEPT ![s] =
                    [NoReq EXCEPT !.op = "register", !.pc = "insert", !.username = username,
                                  !.calls = {"findByUsernamePublic"}]]
            /\ resp' = NoResp

(* AuthService.register after bcrypt.hash: userRepository.createUser answered;
   its error is rethrown as it is, its row is answered with a signed token *)
registerCreate(s) ==
    LET r == reqs[s]
        id == Len(users) + 1
        calls == r.calls \cup {"bcrypt.hash", "createUser"}
    IN  /\ Ready
        /\ r.op = "register" /\ r.pc = "insert"
        /\ UNCHANGED <<vault, proc, boot, pages, edge, config, db, world, tasks>>
        /\ IF UsernameTaken(r.username)
           THEN /\ Finish(s, Reject("register", 0, 0, DuplicateKey, calls))
                /\ UNCHANGED users
           ELSE /\ Len(users) < MaxUsers
                /\ users' = Append(users, UserRow(id, r.username, "hash"))
                /\ Finish(s, Reply("register", id, 0,
                                   <<[id |-> id, username |-> r.username,
                                      token |-> generateToken(id, r.username)]>>,
                                   calls \cup {"generateToken"}))

(* the process from its start: sign-ups that overlap at their awaits, and a
   signed-in client creating a wallet and sending from it *)
NextBoot ==
    \/ startServer
    \/ \E s \in Slots, username \in Usernames : Serving /\ registerStart(s, username)
    \/ \E s \in Slots : registerCreate(s)
    \/ \E network \in Networks, entropy \in Entropy :
          Serving /\ createWallet(ClientHeader, network, entropy)
    \/ \E toAddress \in WalletAddrs, amount \in Amounts :
          Serving /\ sendFundsStart(1, ClientHeader, 1, toAddress, amount)
    \/ \E s \in Slots : sendTransactionGetBalance(s)
    \/ Deliver

SpecBoot == InitState(Hashes, Loaded) /\ [][NextBoot]_vars

(* ------------------------ the encryption module ------------------------ *)
MaxSealed == 2
Plaintexts == 1..3

(* a source of random bytes that repeats itself *)
randomBytesRepeated(drawn) == 1

(* crypto.randomBytes(n): bytes that no earlier call returned *)
randomBytes(drawn) == drawn + 1

(* encrypt(text): salt and iv are drawn, the token is returned to the caller *)
encryptCall(text) ==
    LET salt == randomBytes(vault.drawn)
        iv == randomBytes(vault.drawn + 1)
    IN  /\ Len(vault.sealed) < MaxSealed
        /\ vault' = [drawn |-> vault.drawn + 2,
                     sealed |-> Append(vault.sealed,
                                       [text |-> text, token |-> encrypt(text, salt, iv)]),
                     opened |-> NoOpened]
        /\ UNCHANGED <<proc, users, boot, pages, edge, config, db, world, reqs, tasks, resp>>

(* decrypt(encryptedData): the text, or the error decipher.final throws *)
decryptCall(token) ==
    /\ vault' = [vault EXCEPT !.opened =
                    [called |-> TRUE, token |-> token, ok |-> DecryptOk(token),
                     text |-> decrypt(token)]]
    /\ UNCHANGED <<proc, users, boot, pages, edge, config, db, world, reqs, tasks, resp>>

(* the tokens encrypt has returned *)
SealedTokens == {vault.sealed[i].token : i \in 1..Len(vault.sealed)}

(* a token with one of its parts (salt, iv, tag, ciphertext) altered *)
TamperedTokens(token) ==
    {[token EXCEPT ![part] = x] :
        part \in {"salt", "iv", "tag", "data"}, x \in 0..(Modulus - 1)} \ {token}

(* processes with the encryption secret in the environment, or without it *)
Keyed == {[Listening EXCEPT !.encryptionKey = e] : e \in BOOLEAN}

(* the encryption module called directly: texts are encrypted, and the tokens
   returned, intact or altered, are handed to decrypt *)
NextVault ==
    \/ \E text \in Plaintexts : encryptCall(text)
    \/ \E token \in SealedTokens : decryptCall(token)
    \/ \E token \in SealedTokens : \E forged \in TamperedTokens(token) : decryptCall(forged)

SpecVault == InitState(Hashes, Keyed) /\ [][NextVault]_vars

(* ----------------------- altered stored key tokens --------------------- *)
(* the token createWallet stored for the wallet *)
StoredAtCreation(walletId) == {encrypt(walletId, e[1], e[2]) : e \in Entropy}

(* the wallet's encrypted_private_key is no longer what createWallet stored *)
Altered(walletId) == wallets[walletId].encrypted_private_key \notin StoredAtCreation(walletId)

(* the stored key token of a wallet is altered in the database: one of its
   parts is overwritten *)
Corrupt(walletId, part, x) ==
    /\ Ready
    /\ walletId \in WalletIds
    /\ ~Altered(walletId)
    /\ wallets[walletId].encrypted_private_key[part] # x
    /\ wallets' = [wallets EXCEPT ![walletId].encrypted_private_key[part] = x]
    /\ UNCHANGED <<vault, proc, users, boot, pages, edge, config, txs, statusWrites, world,
                   reqs, tasks, resp>>

(* a client creating wallets and sending from its first wallet, one request
   at a time, while that wallet's stored token is altered behind the server's
   back *)
NextTamper ==
    \/ \E network \in Networks, entropy \in Entropy :
          Idle /\ createWallet(ClientHeader, network, entropy)
    \/ \E part \in {"salt", "iv", "tag", "data"}, x \in 0..(Modulus - 1) : Corrupt(1, part, x)
    \/ \E amount \in Amounts :
          Idle /\ sendFundsStart(1, ClientHeader, 1, AddressOf(2), amount)
    \/ \E s \in Slots : sendTransactionGetBalance(s)
    \/ \E s \in Slots : sendTransactionBroadcast(s)
    \/ \E s \in Slots : sendFundsStore(s)
    \/ Deliver
    \/ \E address \in WalletAddrs : Deposit(address)

SpecTamper == InitState(Hashes, Keyed) /\ [][NextTamper]_vars

(* ------------------- reconciliation under a healthy provider ----------- *)
MaxLiveHashes == 2
LiveHashes == 1..MaxLiveHashes

(* the confirmation wait and the lookup after it both succeed, and the lookup
   reports the receipt *)
updateStatusFetched(h) ==
    /\ updateStatusFetch(h)
    /\ tasks'[h].pc = "update"
    /\ tasks'[h].details.status # "pending"

(* the chain includes the transaction in a block *)
Mined1(h) == \E success \in BOOLEAN : Mine(h, success)

(* one client sending from its wallet, one request at a time; the process
   keeps running, the chain mines what is broadcast, and the provider answers
   the tasks' wait and lookup *)
NextLive ==
    \/ \E network \in Networks, entropy \in Entropy :
          Idle /\ wallets = <<>> /\ createWallet(ClientHeader, network, entropy)
    \/ \E amount \in Amounts :
          Idle /\ sendFundsStart(1, ClientHeader, 1, AddressOf(2), amount)
    \/ \E s \in Slots : sendTransactionGetBalance(s)
    \/ \E s \in Slots : sendTransactionBroadcast(s)
    \/ \E s \in Slots : sendFundsStore(s)
    \/ \E h \in LiveHashes : updateStatusFetched(h)
    \/ \E h \in LiveHashes : updateStatusWrite(h)
    \/ Deliver
    \/ \E address \in WalletAddrs : Deposit(address)
    \/ \E h \in LiveHashes : Mined1(h)

(* the event loop runs every continuation that is ready again and again, and
   responses go out *)
SpecLive ==
    /\ InitWith(LiveHashes)
    /\ [][NextLive]_vars
    /\ WF_vars(Deliver)
    /\ \A h \in LiveHashes :
          /\ SF_vars(Mined1(h))
          /\ SF_vars(updateStatusFetched(h))
          /\ SF_vars(updateStatusWrite(h))

(* ------------------- concurrent sends from one wallet ------------------ *)
MaxRaceHashes == 2

(* one client sending from its wallet to one recipient, its requests overlapping
   at their awaits *)
NextRace ==
    \/ \E network \in Networks, entropy \in Entropy :
          wallets = <<>> /\ createWallet(ClientHeader, network, entropy)
    \/ \E s \in Slots, amount \in Amounts :
          sendFundsStart(s, ClientHeader, 1, AddressOf(2), amount)
    \/ \E s \in Slots : sendTransactionGetBalance(s)
    \/ \E s \in Slots : sendTransactionBroadcast(s)
    \/ \E s \in Slots : sendFundsStore(s)
    \/ Deliver
    \/ \E address \in WalletAddrs : Deposit(address)
    \/ \E h \in 1..MaxRaceHashes, success \in BOOLEAN : Mine(h, success)

SpecRace == InitWith(1..MaxRaceHashes) /\ [][NextRace]_vars

(* ============================ properties =============================== *)
(* what a request must not have reached when it is turned away early *)
NetworkCalls == {"getBalance", "estimateGas", "broadcast"}
AfterBalanceCheck == {"estimateGas", "broadcast", "storeTransaction", "findByHash"}

(* C1: a sendFunds whose amount exceeds the balance the gateway reads never
   passes the balance check: the step that handles the balance answer ends the
   request with an error, and a request ended with 'Insufficient balance' has
   made no gas estimate, no broadcast and no insert, its last step leaving the
   transactions table and the chain as they were. *)
C1_InsufficientFundsRejected ==
    [][ /\ \A s \in Slots :
            ( /\ sendTransactionGetBalance(s)
              /\ balance[AddressOf(reqs[s].privateKey)] < parseEther(reqs[s].amount) )
            => /\ resp'.op = "sendFunds" /\ ~resp'.ok
               /\ resp'.error \in {InsufficientBalance, ProviderFailure}
               /\ reqs'[s] = NoReq
        /\ (resp'.op = "sendFunds" /\ resp'.error = InsufficientBalance)
            => /\ resp'.calls \cap AfterBalanceCheck = {}
               /\ "getBalance" \in resp'.calls
               /\ txs' = txs /\ statusWrites' = statusWrites
               /\ chain' = chain /\ tasks' = tasks
      ]_vars

(* C1 witness: a sendFunds was just refused for insufficient funds, the
   wallet's balance being below every amount that can be asked for *)
C1_Witness ==
    /\ resp.op = "sendFunds" /\ resp.error = InsufficientBalance
    /\ resp.walletId \in WalletIds
    /\ \A a \in Amounts : balance[wallets[resp.walletId].address] < parseEther(a)

(* C2: a sendFunds whose recipient address is malformed (it fails the format
   pattern, or has the form but not the checksum) is ended by its first step
   with an error, before any network call, and that step leaves the
   transactions table unchanged; when the caller is signed in and the address
   fails the pattern, or the wallet is the caller's and the checksum fails, the
   error is the invalid-address error. No request in flight carries an address
   that ethers rejects. *)
C2_MalformedAddressRejected ==
    [][ /\ \A header \in Headers, walletId \in 1..MaxWallets, amount \in Amounts,
              toAddress \in {MalformedAddr, BadChecksumAddr} :
            sendFundsStart(1, header, walletId, toAddress, amount)
            => /\ resp'.op = "sendFunds" /\ ~resp'.ok
               /\ resp'.calls \cap (NetworkCalls \cup AfterBalanceCheck) = {}
               /\ txs' = txs /\ chain' = chain /\ reqs' = reqs
               /\ (requireAuth(authenticateGraphQL(header)) /\ toAddress = MalformedAddr)
                     => resp'.error = InvalidFormat
               /\ ( /\ findWithPrivateKey(walletId, authenticateGraphQL(header)) # <<>>
                    /\ toAddress = BadChecksumAddr )
                     => resp'.error = InvalidRecipient
        /\ \A s \in Slots : reqs'[s].op = "sendFunds" => isAddress(reqs'[s].to)
        /\ resp'.error \in {InvalidFormat, InvalidRecipient}
            => resp'.calls \cap (NetworkCalls \cup AfterBalanceCheck) = {}
      ]_vars

(* C2 witness: the gateway's address check has just refused a sendFunds on the
   caller's own wallet, which has rows already *)
C2_Witness ==
    /\ resp.op = "sendFunds" /\ resp.error = InvalidRecipient
    /\ OwnerOf(resp.walletId) = resp.user
    /\ txs # <<>>

(* C3: the status of a row is written at most once, from pending to confirmed
   or failed: no step writes the status of a row that is confirmed or failed,
   and no step writes pending as the status of an existing row. *)
C3_StatusWrittenOnce ==
    [][ \A i \in 1..Len(txs) :
            /\ txs[i].status \in {"confirmed", "failed"} => statusWrites'[i] = statusWrites[i]
            /\ statusWrites'[i] # statusWrites[i] => txs'[i].status # "pending"
      ]_vars

(* the stages a reconciliation task passes through, in order *)
TaskStage(pc) ==
    CASE pc = "none" -> 0 [] pc = "wait" -> 1 [] pc = "update" -> 2 [] OTHER -> 3

(* C4: sendFunds answers in the step that starts the reconciliation task, the
   task not having run; a step of a task changes no request in flight and sends
   no response; a task that fails (the wait, the lookup or the update) leaves
   the transactions table as it was; and a task never starts over: it only
   moves forward and stays where it ended. *)
C4_ReconciliationDetached ==
    [][ /\ (resp'.op = "sendFunds" /\ resp'.ok)
            => tasks[resp'.hash].pc = "none" /\ tasks'[resp'.hash].pc = "wait"
        /\ \A h \in Hashes :
            /\ (tasks[h].pc # "none" /\ tasks'[h] # tasks[h])
                => /\ reqs' = reqs /\ resp' = NoResp /\ resp = NoResp
                   /\ TaskStage(tasks'[h].pc) > TaskStage(tasks[h].pc)
            /\ (tasks[h].pc # "failed" /\ tasks'[h].pc = "failed")
                => txs' = txs /\ statusWrites' = statusWrites
            /\ tasks[h].pc \in {"done", "failed"} => tasks'[h] = tasks[h]
      ]_vars

(* C4 witness: the task of a persisted transaction has failed and the row is
   still the pending row that sendFunds inserted, never updated *)
C4_Witness ==
    \E h \in Hashes : \E i \in 1..Len(txs) :
        /\ tasks[h].pc = "failed"
        /\ txs[i].transaction_hash = h /\ txs[i].status = "pending"
        /\ statusWrites[i] = 0

(* C5: no two rows ever share a transaction hash; a storeTransaction for a hash
   that is already in the table (from sendFunds or from a history sync) leaves
   the table, every field of every row, unchanged, and sendFunds then answers
   with the row that was there, or with the store's own failure. *)
C5_DuplicateHashReturnsExisting ==
    [][ /\ \A i, j \in 1..Len(txs') :
            txs'[i].transaction_hash = txs'[j].transaction_hash => i = j
        /\ \A s \in Slots :
            /\ (sendFundsStore(s) /\ UniqueViolation(reqs[s].hash))
                => /\ txs' = txs /\ statusWrites' = statusWrites
                   /\ IF resp'.ok
                      THEN resp'.body = findByHash(reqs[s].hash) /\ "findByHash" \in resp'.calls
                      ELSE resp'.error = StoreFailure
            /\ ( /\ historyStore(s)
                 /\ UniqueViolation(Head(reqs[s].pulled).hash) )
                => txs' = txs /\ statusWrites' = statusWrites
      ]_vars

(* C5 witness: sendFunds has just answered with a row it found by hash, the
   only row of the table *)
C5_Witness ==
    /\ resp.op = "sendFunds" /\ resp.ok
    /\ "findByHash" \in resp.calls
    /\ Len(txs) = 1 /\ resp.body = <<txs[1]>>

(* the operations whose responses carry Transaction rows *)
TransactionOps == {"transactions", "transaction", "sendFunds"}

(* C7: every Transaction row in a response to user U belongs to a wallet that
   U owns. *)
C7_NoCrossUserRows ==
    (resp.ok /\ resp.op \in TransactionOps)
        => \A k \in 1..Len(resp.body) : OwnerOf(resp.body[k].wallet_id) = resp.user

(* the calls a wallet-scoped operation makes before it knows the wallet *)
WalletLookups == {"findWithPrivateKey", "findByIdAndUserId"}

(* the step answered with an error and touched nothing but the lookup *)
RejectedWithoutEffect ==
    /\ resp'.op # "none" /\ ~resp'.ok
    /\ resp'.calls \subseteq WalletLookups
    /\ UNCHANGED <<db, world, reqs, tasks>>

(* C6: sendFunds, balance and transactions on a wallet id that does not exist
   or that another user owns are rejected by their first step: nothing is
   decrypted, no gateway call is made, nothing is broadcast, no row is inserted
   or updated and no request stays in flight. *)
C6_ForeignWalletRejected ==
    [][ \A header \in SignedHeaders, walletId \in 1..MaxWallets :
            OwnerOf(walletId) # authenticateGraphQL(header)
            => /\ \A toAddress \in ToAddresses, amount \in Amounts :
                    sendFundsStart(1, header, walletId, toAddress, amount)
                        => RejectedWithoutEffect
               /\ balanceQuery(header, walletId) => RejectedWithoutEffect
               /\ transactionsStart(1, header, walletId, DefaultLimit, DefaultOffset)
                        => RejectedWithoutEffect
      ]_vars

(* C6 witness: a sendFunds on a funded wallet of another user has just been
   refused *)
C6_Witness ==
    /\ resp.op = "sendFunds" /\ resp.error = WalletNotFound
    /\ resp.walletId \in WalletIds /\ OwnerOf(resp.walletId) # resp.user
    /\ balance[wallets[resp.walletId].address] > 0

(* headers that carry no credential, or one that does not verify *)
UnsignedHeaders == {h \in Headers : ~h.present \/ ~h.valid}

(* the step threw 'Authentication required' before calling anything *)
RejectedUnauthenticated ==
    /\ ~resp'.ok /\ resp'.error = AuthRequired /\ resp'.user = 0
    /\ resp'.calls = {}
    /\ UNCHANGED <<db, world, reqs, tasks>>

(* C8: with the Authorization header absent or its token invalid, each of me,
   wallets, wallet, balance, transactions, transaction, createWallet and
   sendFunds throws 'Authentication required' in its first step, having called
   no service, repository or gateway and changed nothing; and no response is
   ever produced for a request without a user other than this rejection. *)
C8_AuthenticationRequired ==
    [][ /\ \A header \in UnsignedHeaders :
            /\ meQuery(header) => RejectedUnauthenticated
            /\ walletsQuery(header) => RejectedUnauthenticated
            /\ \A id \in 1..MaxWallets : walletQuery(header, id) => RejectedUnauthenticated
            /\ \A id \in 1..MaxWallets : balanceQuery(header, id) => RejectedUnauthenticated
            /\ \A id \in 1..MaxWallets :
                  transactionsStart(1, header, id, DefaultLimit, DefaultOffset)
                      => RejectedUnauthenticated
            /\ \A hash \in Hashes : transactionQuery(header, hash) => RejectedUnauthenticated
            /\ \A network \in Networks, entropy \in Entropy :
                  createWallet(header, network, entropy) => RejectedUnauthenticated
            /\ \A id \in 1..MaxWallets, toAddress \in ToAddresses, amount \in Amounts :
                  sendFundsStart(1, header, id, toAddress, amount) => RejectedUnauthenticated
        /\ (resp'.op # "none" /\ resp'.user = 0) => resp'.error = AuthRequired
        /\ \A s \in Slots : reqs'[s].op # "idle" => reqs'[s].user # 0
        /\ \A i \in 1..Len(wallets') : wallets'[i].user_id # 0
      ]_vars

(* C8 witness: a sendFunds without a valid credential has just been refused
   while a funded wallet exists *)
C8_Witness ==
    /\ resp.op = "sendFunds" /\ resp.error = AuthRequired
    /\ \E i \in WalletIds : balance[wallets[i].address] > 0

(* column names under which key material would appear *)
KeyMaterial == {"encrypted_private_key", "privateKey", "private_key", "mnemonic"}

(* C9: every wallets row holds the key only as the encrypted token (which
   decrypts to the key and whose ciphertext is not the key) and has no column
   for the mnemonic or the plaintext key; the createWallet response carries the
   mnemonic; the responses of wallets, wallet and balance carry no mnemonic and
   no key material. *)
C9_KeyMaterialNeverExposed ==
    /\ \A i \in WalletIds :
        /\ DOMAIN wallets[i] = {"id", "user_id", "address", "encrypted_private_key", "network"}
        /\ DOMAIN wallets[i].encrypted_private_key = {"salt", "iv", "tag", "data"}
        /\ \E k \in 1..MaxWallets :
              /\ wallets[i].address = AddressOf(k)
              /\ DecryptOk(wallets[i].encrypted_private_key)
              /\ decrypt(wallets[i].encrypted_private_key) = k
              /\ wallets[i].encrypted_private_key.data # k
    /\ (resp.op = "createWallet" /\ resp.ok)
        => /\ resp.mnemonic # 0
           /\ \E k \in 1..MaxWallets :
                 resp.mnemonic = MnemonicOf(k) /\ resp.body[1].address = AddressOf(k)
    /\ (resp.op \in {"wallets", "wallet", "balance"})
        => /\ resp.mnemonic = 0
           /\ \A k \in 1..Len(resp.body) : DOMAIN resp.body[k] \cap KeyMaterial = {}

(* C9 witness: a wallet that was created earlier has just been read back *)
C9_Witness ==
    /\ resp.op = "wallet" /\ resp.ok
    /\ Len(resp.body) = 1 /\ resp.body[1].id = resp.walletId

(* the causes of a sendFunds failure that the caller is to be told *)
DescriptiveCauses == {InvalidFormat, InvalidRecipient, InsufficientBalance, WalletNotFound}

(* C10: a sendFunds failure caused by an invalid recipient address, by
   insufficient funds or by a wallet that is not found reaches the caller with
   the message that names the cause, under every NODE_ENV. *)
C10_SendFundsErrorsDescriptive ==
    (resp.op = "sendFunds" /\ resp.error \in DescriptiveCauses)
        => resp.message = resp.error.message /\ resp.message # GenericMessage

(* C11: the quotas of the limited endpoint classes hold for one peer and one
   user: within 15 minutes no more than 5 authentication requests (register,
   login) of the peer reach the handlers, and within the hour no more than 10
   sendFunds requests of the user do; the 6th and the 11th are turned away. *)
C11_ClassQuotasEnforced ==
    now < AuthLimiter.duration * 1000
        => /\ admitted.auth <= AuthLimiter.points
           /\ admitted.transfer <= TransactionLimiter.points

(* C12: a request that arrives after the peer has used up the general quota
   and before that window ends is answered 429 with a retryAfter hint in
   seconds (the seconds until the limiter lets the peer in again, rounded up,
   or 60) and is not passed on to the handlers. *)
C12_OverQuotaAnswered429 ==
    http.over
        => /\ http.status = 429
           /\ ~http.next
           /\ http.retryAfter \in 1..GeneralLimiter.duration

(* what does hold for the general limiter: a rejected request gets 429 and a
   hint within the block, and is not passed on *)
RejectedRequestShape ==
    http.status = 429
        => /\ ~http.next
           /\ http.retryAfter \in 1..GeneralLimiter.blockDuration
           /\ limiters.general.consumed > GeneralLimiter.points

(* a page lists its transactions newest first: no row comes before a row whose
   transaction is in a later block *)
NewestFirstPage(page) ==
    \A i, j \in 1..Len(page) : i < j => chain[page[i]].block >= chain[page[j]].block

Elements(page) == {page[i] : i \in 1..Len(page)}

(* C13: when transactions(walletId, k, 0) is followed by
   transactions(walletId, k, k), the two pages have no transaction in common,
   each lists its transactions newest first, and when the wallet has at most
   2k transactions the two pages together are all of them. *)
C13_PaginationStable ==
    pages.stage = 2
        => /\ Elements(pages.first) \cap Elements(pages.second) = {}
           /\ NewestFirstPage(pages.first) /\ NewestFirstPage(pages.second)
           /\ Cardinality(pages.full) <= 2 * pages.k
                => Elements(pages.first) \cup Elements(pages.second) = pages.full

(* what does hold: when no row of the wallet was inserted between the two
   reads, the pages are disjoint and together hold the first 2k rows *)
PagesPartitionWhenQuiet ==
    (pages.stage = 2 /\ pages.before = pages.full)
        => /\ Elements(pages.first) \cap Elements(pages.second) = {}
           /\ Cardinality(pages.full) <= 2 * pages.k
                => Elements(pages.first) \cup Elements(pages.second) = pages.full

(* C14: every row a transactions query returns has the wallet id the query
   asked for, also when the requesting user owns the other wallet of the
   transaction and whatever sends and history syncs came before. *)
C14_ListingKeepsToItsWallet ==
    (resp.op = "transactions" /\ resp.ok)
        => \A i \in 1..Len(resp.body) : resp.body[i].wallet_id = resp.walletId

(* a listing of wallet A answered while the table holds a row of the same
   user's wallet B for a transaction that touches A's address *)
C14_Witness ==
    /\ resp.op = "transactions" /\ resp.ok
    /\ \E i \in 1..Len(txs) :
          /\ txs[i].wallet_id # resp.walletId
          /\ OwnerOf(txs[i].wallet_id) = resp.user
          /\ wallets[resp.walletId].address \in {txs[i].from_address, txs[i].to_address}

(* C15: a step that inserts a transactions row inserts it with status
   'pending', be it the insert of sendFunds after the broadcast or an insert
   of the history sync. *)
C15_CreatedPending ==
    [][Len(txs') > Len(txs) => txs'[Len(txs')].status = "pending"]_vars

(* what does hold: the row sendFunds inserts is pending, and so is every row
   ingested by the block scan *)
CreatedPendingWithoutExplorer ==
    [][(Len(txs') > Len(txs) /\ (~etherscanKey \/ \E s \in Slots : sendFundsStore(s)))
          => txs'[Len(txs')].status = "pending"]_vars

(* C16: a row that was pending with its reconciliation task unfinished when
   the process terminated keeps status 'pending' through every later step:
   no history sync, read, send or task after the restart writes its status. *)
C16_OrphanedStaysPending ==
    [][\A i \in 1..Len(txs) :
          txs[i].transaction_hash \in boot'.orphaned
              => /\ i <= Len(txs') /\ txs'[i].status = "pending"
                 /\ tasks'[txs[i].transaction_hash] = NoTask]_vars

(* after the restart the orphaned transaction is mined, the owner has sent
   again and lists the wallet: the list shows the orphaned row, still pending *)
C16_Witness ==
    /\ boot.starts = 1
    /\ resp.op = "transactions" /\ resp.ok
    /\ \E i \in 1..Len(resp.body) :
          /\ resp.body[i].transaction_hash \in boot.orphaned
          /\ resp.body[i].status = "pending"
          /\ chain[resp.body[i].transaction_hash].state = "success"
    /\ \E h \in DOMAIN chain : h \notin boot.orphaned /\ chain[h].state # "none"

(* C17: whenever the gateway's getTransactionHistory cannot use the explorer,
   because no key is configured or because the explorer's answer is an error
   status or does not come, it scans the recent blocks through the provider. *)
C17_FallsBackToBlockScan ==
    [][\A s \in Slots : \A answer \in HistoryAnswers :
          (historyPull(s, answer) /\ (~etherscanKey \/ answer # "list"))
              => "getBasicTransactionHistory" \in reqs'[s].calls]_vars

(* what does hold: without an explorer key the block scan is used *)
FallsBackWhenUnconfigured ==
    [][\A s \in Slots : \A answer \in HistoryAnswers :
          (historyPull(s, answer) /\ ~etherscanKey)
              => "getBasicTransactionHistory" \in reqs'[s].calls]_vars

(* C18: for a wallet of the caller, neither the history pull nor an insert of
   the sync ends the request: whatever the pull returned and whether or not
   the insert went through, the request goes on, and it is answered in the step
   that reads persistence, with the page findByWalletId(walletId, limit,
   offset) (or with the failure of that read). *)
C18_SyncFailuresNotRaised ==
    [][\A s \in Slots :
          /\ (\E answer \in HistoryAnswers : historyPull(s, answer))
                => /\ resp' = NoResp
                   /\ reqs'[s].op = "transactions" /\ reqs'[s].pc = "store"
          /\ (reqs[s].op = "transactions" /\ reqs[s].pc = "store" /\ reqs[s].pulled # <<>>
              /\ reqs'[s] # reqs[s])
                => /\ resp' = NoResp
                   /\ reqs'[s].op = "transactions" /\ reqs'[s].pc = "store"
                   /\ reqs'[s].pulled = Tail(reqs[s].pulled)
          /\ (reqs[s].op = "transactions" /\ reqs[s].pc = "store" /\ reqs[s].pulled = <<>>
              /\ reqs'[s] # reqs[s] /\ resp'.ok)
                => resp'.body = findByWalletId(reqs[s].walletId, reqs[s].limit, reqs[s].offset)]_vars

(* a listing answered with its page although the insert of a mined transaction
   of the wallet was tried and did not go through: the transaction has no row *)
C18_Witness ==
    /\ resp.op = "transactions" /\ resp.ok
    /\ "storeTransaction" \in resp.calls
    /\ \E h \in Mined :
          /\ wallets[resp.walletId].address \in {chain[h].from, chain[h].to}
          /\ RowsWithHash(h) = {}

(* a wallet-scoped operation turned away right after the wallet lookup: the
   repository found no wallet for the wallet id and the user *)
NoWalletFound(op) ==
    /\ resp.op = op /\ ~resp.ok
    /\ resp.calls # {} /\ resp.calls \subseteq WalletLookups

(* C19: getBalance, sendFunds and getTransactionHistory each reject with the
   message 'Wallet not found' when the repository finds no wallet for the
   wallet id and user id. *)
C19_WalletNotFoundMessage ==
    \A op \in {"balance", "sendFunds", "transactions"} :
        NoWalletFound(op) => resp.error.message = "Wallet not found"

(* what does hold: getBalance and sendFunds reject with 'Wallet not found' *)
WalletNotFoundOnBalanceAndSend ==
    \A op \in {"balance", "sendFunds"} :
        NoWalletFound(op) => resp.error.message = "Wallet not found"

(* C20: the global error handler answers an error of the chain library whose
   code is INSUFFICIENT_FUNDS with status 400 and the message 'Insufficient
   funds for transaction', and one whose code is INVALID_ARGUMENT with status
   400 and the message 'Invalid wallet address'. *)
C20_ChainErrorsMappedByCode ==
    [][\A err \in ThrownErrors :
          errorHandler(err)
              => /\ err.code = "INSUFFICIENT_FUNDS"
                      => http'.status = 400 /\ http'.error = "Insufficient funds for transaction"
                 /\ err.code = "INVALID_ARGUMENT"
                      => http'.status = 400 /\ http'.error = "Invalid wallet address"]_vars

(* what the handler does with every error that carries a code of the chain
   library: the answer for an unknown database code *)
ChainCodesTakenForDatabaseCodes ==
    [][\A err \in ThrownErrors :
          (errorHandler(err) /\ err.code \in ChainCodes)
              => http'.status = 500 /\ http'.error = "Database operation failed"]_vars
(* the calls that use one of the two secrets *)
SecretUses == {"generateToken", "encrypt", "decrypt"}

(* C21: with the signing secret or the encryption secret absent from the
   environment, the server never listens, no token is signed and no private
   key is encrypted or decrypted. *)
C21_FailsFastWithoutSecrets ==
    (~proc.jwtSecret \/ ~proc.encryptionKey)
        => /\ proc.phase # "listening"
           /\ resp.calls \cap SecretUses = {}

(* what the code does in place of failing: the literals stand in for the
   secrets that are absent *)
LiteralsStandIn ==
    /\ (resp.op = "register" /\ resp.ok /\ ~proc.jwtSecret)
          => resp.body[1].token.secret = "your-secret-key"
    /\ ~proc.encryptionKey
          => \A i \in WalletIds :
                wallets[i].encrypted_private_key.tag
                    = AuthTag(i, (DefaultKey * 2 + wallets[i].encrypted_private_key.salt * 3) % Modulus,
                              wallets[i].encrypted_private_key.iv)
(* no two rows of the users table have the same username *)
UsernamesUnique(table) ==
    \A i, j \in 1..Len(table) : table[i].username = table[j].username => i = j

(* C22: a register for a username that is taken, be it taken when the call
   checks for it or taken by another call between the check and the insert,
   fails with 'Username already exists' and inserts no row; no two rows of the
   users table ever share a username. *)
C22_TakenUsernameRejected ==
    [][ /\ \A s \in Slots :
            /\ \A username \in Usernames :
                  (registerStart(s, username) /\ UsernameTaken(username))
                      => resp'.error = UsernameExists /\ users' = users
            /\ (registerCreate(s) /\ UsernameTaken(reqs[s].username))
                  => resp'.error = UsernameExists /\ users' = users
        /\ UsernamesUnique(users')
      ]_vars

(* what does hold: a register for a taken username fails and inserts no row,
   and usernames stay unique; the call that loses the race fails with the
   error of the database *)
TakenUsernameCreatesNoRow ==
    [][ /\ \A s \in Slots :
            /\ \A username \in Usernames :
                  (registerStart(s, username) /\ UsernameTaken(username))
                      => resp'.error = UsernameExists /\ users' = users
            /\ (registerCreate(s) /\ UsernameTaken(reqs[s].username))
                  => resp'.error = DuplicateKey /\ ~resp'.ok /\ users' = users
        /\ UsernamesUnique(users')
      ]_vars
(* C23: with one request at a time, every sendFunds that succeeds adds exactly
   one row to the table: a row of its wallet, for the hash its broadcast
   returned, which no row had before; the rows that were there stay. So two
   successful sends from one wallet to one destination leave two rows with two
   different hashes, and n sends leave n rows, one per hash. *)
C23_EachSendAddsItsRow ==
    [][\A s \in Slots :
          (sendFundsStore(s) /\ resp'.ok)
              => /\ RowsWithHash(reqs[s].hash) = {}
                 /\ Len(txs') = Len(txs) + 1
                 /\ SubSeq(txs', 1, Len(txs)) = txs
                 /\ txs'[Len(txs')].wallet_id = reqs[s].walletId
                 /\ txs'[Len(txs')].transaction_hash = reqs[s].hash
                 /\ resp'.hash = reqs[s].hash
                 /\ resp'.body = <<txs'[Len(txs')]>>]_vars

(* the second of two successful sends from one wallet to one destination has
   just been answered: the wallet has two rows, with different hashes *)
C23_Witness ==
    /\ resp.op = "sendFunds" /\ resp.ok
    /\ \E i, j \in 1..Len(txs) :
          /\ i < j /\ resp.body = <<txs[j]>>
          /\ txs[i].wallet_id = resp.walletId /\ txs[j].wallet_id = resp.walletId
          /\ txs[i].to_address = txs[j].to_address
          /\ txs[i].from_address = txs[j].from_address
          /\ txs[i].transaction_hash # txs[j].transaction_hash
(* C24: every token encrypt has returned decrypts to the text it was made
   from, under the configured secret and under the literal that stands in for
   it, and no two tokens encrypt has returned are equal, also when they were
   made from the same text: their salts differ and their nonces differ. *)
C24_RoundTripAndFreshness ==
    /\ \A i \in 1..Len(vault.sealed) :
          /\ DecryptOk(vault.sealed[i].token)
          /\ decrypt(vault.sealed[i].token) = vault.sealed[i].text
    /\ \A i, j \in 1..Len(vault.sealed) :
          i # j => /\ vault.sealed[i].token # vault.sealed[j].token
                   /\ vault.sealed[i].token.salt # vault.sealed[j].token.salt
                   /\ vault.sealed[i].token.iv # vault.sealed[j].token.iv
    /\ (vault.opened.called /\ vault.opened.token \in SealedTokens)
          => /\ vault.opened.ok
             /\ \E i \in 1..Len(vault.sealed) :
                   /\ vault.sealed[i].token = vault.opened.token
                   /\ vault.sealed[i].text = vault.opened.text

(* the second of two tokens made from one text has just been decrypted *)
C24_Witness ==
    /\ Len(vault.sealed) = 2
    /\ vault.sealed[1].text = vault.sealed[2].text
    /\ vault.opened.called /\ vault.opened.token = vault.sealed[2].token
    /\ vault.opened.ok /\ vault.opened.text = vault.sealed[2].text
(* C25: a token that differs from a token encrypt made in its salt, nonce,
   tag or ciphertext does not decrypt; and a sendFunds on a wallet of the
   caller whose stored token has been altered ends in its first step with the
   decryption error, having called the repository and decrypt only: no
   gateway call, nothing broadcast, no row inserted, no request in flight. *)
C25_AlteredTokenStopsSend ==
    [][ /\ \A w \in WalletIds : \A token \in StoredAtCreation(w) :
              \A forged \in TamperedTokens(token) : ~DecryptOk(forged)
        /\ \A walletId \in WalletIds, toAddress \in WalletAddrs, amount \in Amounts :
              ( /\ sendFundsStart(1, ClientHeader, walletId, toAddress, amount)
                /\ OwnerOf(walletId) = ClientHeader.userId
                /\ Altered(walletId) )
              => /\ resp'.op = "sendFunds" /\ ~resp'.ok
                 /\ resp'.error = DecryptFailure
                 /\ resp'.calls = {"findWithPrivateKey", "decrypt"}
                 /\ chain' = chain /\ txs' = txs /\ tasks' = tasks
                 /\ reqs' = reqs
      ]_vars

(* a sendFunds on a funded wallet whose stored token was altered has just been
   refused at the decryption *)
C25_Witness ==
    /\ resp.op = "sendFunds" /\ resp.error = DecryptFailure
    /\ resp.walletId \in WalletIds /\ Altered(resp.walletId)
    /\ balance[wallets[resp.walletId].address] > 0
    /\ chain = [h \in DOMAIN chain |-> NoChainTx] /\ txs = <<>>
(* the stages of a sendFunds request in flight, in order *)
SendStage(r) ==
    CASE r.op # "sendFunds" -> 0
      [] r.pc = "getBalance" -> 1
      [] r.pc = "broadcast" -> 2
      [] OTHER -> 3

(* C26: a sendFunds goes through its stages in order and skips none. A request
   is with the gateway only with its wallet loaded and the key decrypted from
   the wallet's token; it moves one stage at a time and succeeds only from the
   last; it is at the insert exactly when its broadcast has returned a hash
   the chain knows; a step of sendFunds inserts a row only for the hash of its
   own broadcast; and the reconciliation task of a hash is started only by the
   step in which the insert (or the lookup of the duplicate) for that hash
   returned, so that every hash with a task has a row. *)
C26_TransferStagesInOrder ==
    [][ /\ \A s \in Slots :
            /\ reqs'[s].op = "sendFunds"
                  => /\ {"findWithPrivateKey", "decrypt"} \subseteq reqs'[s].calls
                     /\ reqs'[s].walletId \in WalletIds
                     /\ reqs'[s].privateKey
                            = decrypt(wallets[reqs'[s].walletId].encrypted_private_key)
                     /\ (reqs'[s].pc = "store") <=> (reqs'[s].hash # 0)
                     /\ reqs'[s].hash # 0
                            => /\ chain'[reqs'[s].hash].state # "none"
                               /\ "broadcast" \in reqs'[s].calls
            /\ reqs'[s] # reqs[s]
                  => \/ SendStage(reqs'[s]) = SendStage(reqs[s]) + 1
                     \/ reqs'[s] = NoReq
                     \/ reqs[s].op = "transactions" \/ reqs'[s].op = "transactions"
            /\ (reqs[s].op = "sendFunds" /\ reqs'[s] = NoReq /\ resp'.ok)
                  => SendStage(reqs[s]) = 3
            /\ (sendFundsStore(s) /\ Len(txs') > Len(txs))
                  => /\ Len(txs') = Len(txs) + 1
                     /\ txs'[Len(txs')].transaction_hash = reqs[s].hash
                     /\ chain[reqs[s].hash].state # "none"
        /\ \A h \in DOMAIN tasks :
            /\ (tasks[h].pc = "none" /\ tasks'[h].pc # "none")
                  => /\ tasks'[h].pc = "wait"
                     /\ resp'.op = "sendFunds" /\ resp'.ok /\ resp'.hash = h
                     /\ "storeTransaction" \in resp'.calls
                     /\ \E s \in Slots : sendFundsStore(s) /\ reqs[s].hash = h
                     /\ \E i \in 1..Len(txs') : txs'[i].transaction_hash = h
            /\ tasks'[h].pc # "none"
                  => \E i \in 1..Len(txs') : txs'[i].transaction_hash = h
      ]_vars

(* a transfer has gone through every stage: its task has finished and its row
   is confirmed, written once *)
C26_Witness ==
    \E h \in DOMAIN tasks : \E i \in 1..Len(txs) :
        /\ tasks[h].pc = "done"
        /\ txs[i].transaction_hash = h /\ txs[i].status = "confirmed"
        /\ statusWrites[i] = 1
        /\ chain[h].state = "success"
(* sendFunds has inserted the pending row of hash h and started its task *)
PersistedPending(h) ==
    /\ tasks[h].pc = "wait"
    /\ \E i \in RowsWithHash(h) : txs[i].status = "pending"

(* the row of hash h has its final status and the details of the lookup *)
Reconciled(h) ==
    \E i \in RowsWithHash(h) :
        /\ txs[i].status \in {"confirmed", "failed"}
        /\ txs[i].status = TransactionDetails(h, TRUE).status
        /\ txs[i].gas_used = TransactionDetails(h, TRUE).gasUsed
        /\ txs[i].block_number = TransactionDetails(h, TRUE).blockNumber
        /\ txs[i].timestamp = TransactionDetails(h, TRUE).timestamp
        /\ txs[i].block_number # 0

(* C27 as stated: while the process keeps running and the provider's wait and
   lookup succeed with a receipt, every transaction that sendFunds persisted
   as pending eventually is confirmed or failed, with gas used, block number
   and timestamp from the lookup. *)
C27_EventuallyReconciled ==
    \A h \in LiveHashes : PersistedPending(h) ~> Reconciled(h)

(* C27: under the same conditions every transaction that sendFunds persisted
   as pending eventually is confirmed or failed with the details of the
   lookup, unless the UPDATE of its row failed, which ends the task and leaves
   the row pending. *)
C27_ReconciledUnlessUpdateFails ==
    \A h \in LiveHashes :
        PersistedPending(h)
            ~> (Reconciled(h) \/ (tasks[h].pc = "failed" /\ ~Reconciled(h)))

(* both transactions the client has sent are reconciled, one confirmed and
   one failed *)
C27_Witness ==
    /\ \A h \in LiveHashes : Reconciled(h) /\ tasks[h].pc = "done"
    /\ \E i, j \in 1..Len(txs) : txs[i].status = "confirmed" /\ txs[j].status = "failed"
(* C28: nothing serializes the sends of a wallet. A request at the balance
   check whose own amount the balance covers can pass it, and a request past
   the check can broadcast, whatever other requests of the same wallet are in
   flight and whatever they are about to spend. *)
C28_SendsNotSerialized ==
    \A s \in Slots :
        /\ ( /\ Ready /\ reqs[s].op = "sendFunds" /\ reqs[s].pc = "getBalance"
             /\ balance[AddressOf(reqs[s].privateKey)] >= parseEther(reqs[s].amount) )
              => ENABLED (sendTransactionGetBalance(s) /\ reqs'[s].pc = "broadcast")
        /\ ( /\ Ready /\ reqs[s].op = "sendFunds" /\ reqs[s].pc = "broadcast"
             /\ NextHash \in DOMAIN chain )
              => ENABLED (sendTransactionBroadcast(s) /\ reqs'[s].pc = "store")

(* two sends of one wallet are past their broadcasts at the same time: each
   amount fits the balance, the two together exceed it *)
C28_Witness ==
    \E s, t \in Slots :
        /\ s # t
        /\ reqs[s].op = "sendFunds" /\ reqs[s].pc = "store"
        /\ reqs[t].op = "sendFunds" /\ reqs[t].pc = "store"
        /\ reqs[s].walletId = reqs[t].walletId
        /\ reqs[s].hash # reqs[t].hash
        /\ chain[reqs[s].hash].state = "pending" /\ chain[reqs[t].hash].state = "pending"
        /\ LET held == balance[AddressOf(reqs[s].privateKey)]
           IN  /\ chain[reqs[s].hash].value <= held
               /\ chain[reqs[t].hash].value <= held
               /\ chain[reqs[s].hash].value + chain[reqs[t].hash].value > held
(* C29: a sendFunds that ends with an error has not broadcast: the request
   that ends carries no hash of a broadcast of its own, and the step that
   ends it leaves the chain as it was. *)
C29_ErrorMeansNotBroadcast ==
    [][\A s \in Slots :
          (reqs[s].op = "sendFunds" /\ reqs'[s] = NoReq /\ ~resp'.ok)
              => /\ reqs[s].hash = 0
                 /\ chain' = chain]_vars

(* what does hold: every failure of sendFunds other than the failure to store
   the row comes before the broadcast, and the failure to store comes after
   it, the transaction being on the chain without a row *)
ErrorsBeforeTheStoreMeanNotBroadcast ==
    [][\A s \in Slots :
          (reqs[s].op = "sendFunds" /\ reqs'[s] = NoReq /\ ~resp'.ok)
              => /\ chain' = chain
                 /\ IF resp'.error = StoreFailure
                    THEN /\ reqs[s].hash # 0
                         /\ chain[reqs[s].hash].state # "none"
                         /\ txs' = txs
                    ELSE reqs[s].hash = 0]_vars
(* C30: when a sendFunds from wallet W has succeeded with hash H, the row
   with hash H has wallet id W and is in the list transactions(W) reads,
   whatever history syncs of other wallets ran meanwhile. *)
C30_SentRowBelongsToSender ==
    (resp.op = "sendFunds" /\ resp.ok)
        => /\ \E i \in RowsWithHash(resp.hash) : txs[i].wallet_id = resp.walletId
           /\ \E k \in 1..Len(findByWalletId(resp.walletId, Len(txs), 0)) :
                 findByWalletId(resp.walletId, Len(txs), 0)[k].transaction_hash = resp.hash

(* what does hold: the row belongs to the sender's wallet when sendFunds
   inserted it itself; when the insert met a row that a sync had stored, the
   row keeps the wallet id of the wallet that was synced *)
SentRowBelongsToSenderWhenInserted ==
    (resp.op = "sendFunds" /\ resp.ok)
        => /\ Len(resp.body) = 1 /\ resp.body[1].transaction_hash = resp.hash
           /\ "findByHash" \notin resp.calls
                 => /\ resp.body[1].wallet_id = resp.walletId
                    /\ \E i \in RowsWithHash(resp.hash) : txs[i] = resp.body[1]
           /\ "findByHash" \in resp.calls
                 => \E i \in RowsWithHash(resp.hash) :
                       /\ txs[i] = resp.body[1]
                       /\ wallets[txs[i].wallet_id].address
                              \in {txs[i].from_address, txs[i].to_address}
====
